---- MODULE Spec2Model ----
(***************************************************************************)
(* Draft state machine of the fantasy-football snake-draft simulator:      *)
(* DraftState / TeamRoster / Pick (draft_state.py), DraftRules             *)
(* (draft_rules.py), RosterValidator (roster_validator.py) and             *)
(* DraftController.make_pick (draft_controller.py).                        *)
(*                                                                         *)
(* Python lists are TLA+ sequences (index i in Python is i + 1 here).      *)
(* Optional[str] values are sequences of length at most one: None is <<>>  *)
(* and a present value t is <<t>>.  datetime.now() reads the variable      *)
(* clock, which the environment advances.                                  *)
(***************************************************************************)
EXTENDS Integers, Sequences, FiniteSets, TLC

VARIABLES
    draft_id,           \* DraftState.draft_id
    league_config,      \* DraftState.league_config (LeagueConfig, immutable)
    current_pick,       \* DraftState.current_pick
    current_round,      \* DraftState.current_round
    current_team_id,    \* DraftState.current_team_id
    draft_order,        \* DraftState.draft_order
    teams,              \* DraftState.teams: team id -> TeamRoster
    all_picks,          \* DraftState.all_picks: the pick log
    available_players,  \* DraftState.available_players
    is_complete,        \* DraftState.is_complete
    completed_at,       \* DraftState.completed_at (Optional)
    clock,              \* the wall clock datetime.now() reads
    patched,            \* TRUE once rules.validate_pick is replaced by a stub
    result,             \* outcome kind of the last call: "ok" or the error kind
    storage,            \* the storage directory of StatePersistence
    calc,               \* arguments and return value of the last calculator call
    calls               \* the make_pick calls in progress, one per caller

cursorVars == <<current_pick, current_round, current_team_id>>
draftVars == <<draft_id, league_config, current_pick, current_round, current_team_id,
               draft_order, teams, all_picks, available_players,
               is_complete, completed_at>>
vars == <<draft_id, league_config, current_pick, current_round, current_team_id,
          draft_order, teams, all_picks, available_players,
          is_complete, completed_at, clock, patched, result, storage, calc, calls>>

-----------------------------------------------------------------------------
(* Bounds *)

\* The clock takes the values 0..MaxClock.
MaxClock == 1

\* Direct advance_to_next_pick calls stop MaxOverrun picks past the last one.
MaxOverrun == 1

-----------------------------------------------------------------------------
(* Optional values *)

None == <<>>

Some(x) == <<x>>

-----------------------------------------------------------------------------
(* Python list helpers *)

Range(s) == {s[i] : i \in DOMAIN s}

\* list.remove(x) on a list holding x: the first occurrence is deleted.
ListRemove(s, x) ==
    LET i == CHOOSE j \in DOMAIN s : s[j] = x /\ \A k \in 1..(j - 1) : s[k] # x
    IN  SubSeq(s, 1, i - 1) \o SubSeq(s, i + 1, Len(s))

\* list.pop(): the last element is deleted.
ListPop(s) == SubSeq(s, 1, Len(s) - 1)

RECURSIVE SumOver(_, _)
SumOver(f, keys) ==
    IF keys = {} THEN 0
    ELSE LET k == CHOOSE x \in keys : TRUE
         IN  f[k] + SumOver(f, keys \ {k})

-----------------------------------------------------------------------------
(* Exact arithmetic: a float is the fraction num/den in lowest terms, den > 0 *)

Abs(n) == IF n < 0 THEN -n ELSE n

RECURSIVE Gcd(_, _)
Gcd(a, b) == IF b = 0 THEN a ELSE Gcd(b, a % b)

Rat(n, d) ==
    LET g == Gcd(Abs(n), d)
    IN  [num |-> n \div g, den |-> d \div g]

RatAdd(a, b) == Rat(a.num * b.den + b.num * a.den, a.den * b.den)

RatMul(a, b) == Rat(a.num * b.num, a.den * b.den)

RatLeq(a, b) == a.num * b.den <= b.num * a.den

RatMin(a, b) == IF RatLeq(a, b) THEN a ELSE b

RatMax(a, b) == IF RatLeq(a, b) THEN b ELSE a

\* dict.get(key, default)
MapGet(map, key, default) == IF key \in DOMAIN map THEN map[key] ELSE default

\* The dict with no key.
EmptyMap == [k \in {} |-> 0]

-----------------------------------------------------------------------------
(* Player catalog and league configurations *)

\* Every name a roster slot or a position can carry.
SlotNames == {"QB", "RB", "WR", "TE", "FLEX", "K", "DST", "BENCH"}

FLEX_ELIGIBLE_POSITIONS == {"RB", "WR", "TE"}

\* player_data keys in insertion order; np1 carries an empty position.
CatalogOrder ==
    <<"qb1", "qb2", "rb1", "rb2", "wr1", "k1", "np1", "te1", "dst1">>

player_data ==
    [qb1 |-> [position |-> "QB"], qb2 |-> [position |-> "QB"],
     rb1 |-> [position |-> "RB"], rb2 |-> [position |-> "RB"],
     wr1 |-> [position |-> "WR"],
     k1  |-> [position |-> "K"],  np1 |-> [position |-> ""],
     te1 |-> [position |-> "TE"], dst1 |-> [position |-> "DST"]]

\* player.get("projections", {}) of every catalog entry, in hundredths of a
\* point; qb2 has no standard projection, k1 and np1 have none at all.  No
\* sum of these values lies halfway between two tenths.
projections ==
    [qb1 |-> [standard |-> 10000, half_ppr |-> 11000, full_ppr |-> 12000],
     qb2 |-> [half_ppr |-> 9512, full_ppr |-> 9912],
     rb1 |-> [standard |-> 7000, half_ppr |-> 8002, full_ppr |-> 9000],
     rb2 |-> [standard |-> 10000, half_ppr |-> 11000, full_ppr |-> 12000],
     wr1 |-> [standard |-> 5512, half_ppr |-> 6000, full_ppr |-> 6512],
     k1  |-> <<>>,
     np1 |-> <<>>,
     te1 |-> [standard |-> 4000, half_ppr |-> 4500, full_ppr |-> 5000],
     dst1 |-> [standard |-> 3000, half_ppr |-> 3000, full_ppr |-> 3000]]

\* player.get("baseline_vor", {}) of every catalog entry, in hundredths of a
\* point: qb1 and qb2 tie in half_ppr and swap places in standard, rb2 is
\* below replacement, wr1 is at replacement, k1 and np1 have no baseline.
baseline_vor ==
    [qb1 |-> [standard |-> 2000, half_ppr |-> 2200, full_ppr |-> 2400],
     qb2 |-> [standard |-> 2512, half_ppr |-> 2200],
     rb1 |-> [standard |-> 4000, half_ppr |-> 5000, full_ppr |-> 6000],
     rb2 |-> [standard |-> -350, half_ppr |-> -350, full_ppr |-> -350],
     wr1 |-> [standard |-> 0, half_ppr |-> 0, full_ppr |-> 0],
     k1  |-> EmptyMap,
     np1 |-> EmptyMap,
     te1 |-> [standard |-> 1000, half_ppr |-> 1200, full_ppr |-> 1400],
     dst1 |-> [standard |-> 500, half_ppr |-> 500, full_ppr |-> 500]]

\* An id that is no key of player_data.
UnknownPlayer == "nonexistent_player"

\* The player ids make_pick is called with.
PlayerInputs ==
    {"qb1", "qb2", "rb1", "rb2", "wr1", "k1", "np1", UnknownPlayer}

\* roster_slots maps; K and DST are no keys of them.
SlotsChain == [QB |-> 1, RB |-> 1, WR |-> 0, TE |-> 0, FLEX |-> 1, BENCH |-> 1]

SlotsNoBench == [QB |-> 1, RB |-> 0, WR |-> 0, TE |-> 0, FLEX |-> 1, BENCH |-> 0]

SlotsQBOnly == [QB |-> 1, RB |-> 0, WR |-> 0, TE |-> 0, FLEX |-> 0, BENCH |-> 0]

SlotsNone == [QB |-> 0, RB |-> 0, WR |-> 0, TE |-> 0, FLEX |-> 0, BENCH |-> 0]

\* A draft_mode string that is neither "simulation" nor "manual_tracker";
\* LeagueConfig and DraftInitializer.create_draft accept any string.
OtherMode == "auction"

SlotsFlexBench == [QB |-> 0, RB |-> 0, WR |-> 0, TE |-> 0, FLEX |-> 1, BENCH |-> 1]

DEFAULT_SCORING_FORMAT == "half_ppr"

Config(n, type, mode, slots) ==
    [league_size |-> n, draft_type |-> type, draft_mode |-> mode,
     roster_slots |-> slots, scoring_format |-> DEFAULT_SCORING_FORMAT]

WithScoring(cfg, scoring_format) == [cfg EXCEPT !.scoring_format = scoring_format]

LeagueConfigs ==
    { Config(2, "snake", "simulation", SlotsChain),
      Config(2, "snake", "simulation", SlotsNoBench),
      Config(2, "snake", "manual_tracker", SlotsNoBench),
      Config(2, "linear", "simulation", SlotsNoBench),
      Config(4, "snake", "simulation", SlotsNoBench),
      Config(2, "snake", "simulation", SlotsQBOnly),
      Config(4, "snake", "simulation", SlotsQBOnly),
      Config(2, "snake", "simulation", SlotsNone),
      Config(2, "snake", OtherMode, SlotsQBOnly) }

-----------------------------------------------------------------------------
(* LeagueConfig *)

\* total_rounds counting the slot names instead of adding their capacities.
total_rounds_CountsSlots(cfg) == Cardinality(DOMAIN cfg.roster_slots)

total_rounds(cfg) == SumOver(cfg.roster_slots, DOMAIN cfg.roster_slots)

get_position_limit(cfg, position) ==
    IF position \in DOMAIN cfg.roster_slots THEN cfg.roster_slots[position] ELSE 0

TotalPicks(cfg) == cfg.league_size * total_rounds(cfg)

-----------------------------------------------------------------------------
(* TeamRoster *)

get_roster_count(team, position) ==
    IF position \in DOMAIN team.roster THEN Len(team.roster[position]) ELSE 0

\* add_player putting the newest pick at the head of the flat pick list.
add_player_PicksPrepended(team, player_id, slot) ==
    [roster |-> [team.roster EXCEPT ![slot] = Append(@, player_id)],
     picks  |-> <<player_id>> \o team.picks]

\* add_player forgetting the slot list.
add_player_PicksOnly(team, player_id, slot) ==
    [roster |-> team.roster, picks |-> Append(team.picks, player_id)]

add_player(team, player_id, slot) ==
    [roster |-> [team.roster EXCEPT ![slot] = Append(@, player_id)],
     picks  |-> Append(team.picks, player_id)]

remove_player(team, player_id, slot) ==
    [roster |-> [team.roster EXCEPT ![slot] = ListRemove(@, player_id)],
     picks  |-> ListRemove(team.picks, player_id)]

-----------------------------------------------------------------------------
(* Pick *)

\* Pick.create recording the team on the clock instead of the picking team.
PickCreate_OnClockTeam(pick_number, round, team_id, player_id, slot) ==
    [pick_number |-> pick_number, round |-> round, team_id |-> current_team_id,
     player_id |-> player_id, timestamp |-> clock, slot |-> slot]

PickCreate(pick_number, round, team_id, player_id, slot) ==
    [pick_number |-> pick_number, round |-> round, team_id |-> team_id,
     player_id |-> player_id, timestamp |-> clock, slot |-> slot]

-----------------------------------------------------------------------------
(* DraftState *)

TeamIds == 0..(league_config.league_size - 1)

get_player_info(player_id) ==
    IF player_id \in DOMAIN player_data THEN Some(player_data[player_id]) ELSE None

is_player_available(player_id) == player_id \in Range(available_players)

\* advance_to_next_pick never reversing the order.
NextCursor_NoReversal(cfg, order, complete, pick, round, team) ==
    IF complete
    THEN [current_pick |-> pick, current_round |-> round, current_team_id |-> team]
    ELSE LET p == pick + 1
         IN  [current_pick |-> p,
              current_round |-> ((p - 1) \div cfg.league_size) + 1,
              current_team_id |-> order[((p - 1) % cfg.league_size) + 1]]

\* advance_to_next_pick without its is_complete test.
NextCursor_IgnoresComplete(cfg, order, complete, pick, round, team) ==
    LET p == pick + 1
        r == ((p - 1) \div cfg.league_size) + 1
        picks_in_round == (p - 1) % cfg.league_size
        team_index ==
            IF cfg.draft_type = "snake"
            THEN IF r % 2 = 1 THEN picks_in_round
                 ELSE cfg.league_size - 1 - picks_in_round
            ELSE picks_in_round
    IN  [current_pick |-> p, current_round |-> r,
         current_team_id |-> order[team_index + 1]]

\* advance_to_next_pick reversing even rounds whatever the draft type.
NextCursor_AlwaysSnake(cfg, order, complete, pick, round, team) ==
    IF complete
    THEN [current_pick |-> pick, current_round |-> round, current_team_id |-> team]
    ELSE LET p == pick + 1
             r == ((p - 1) \div cfg.league_size) + 1
             picks_in_round == (p - 1) % cfg.league_size
             team_index == IF r % 2 = 1 THEN picks_in_round
                           ELSE cfg.league_size - 1 - picks_in_round
         IN  [current_pick |-> p, current_round |-> r,
              current_team_id |-> order[team_index + 1]]

\* The cursor advance_to_next_pick leaves, computed from the cursor it finds.
NextCursor(cfg, order, complete, pick, round, team) ==
    IF complete
    THEN [current_pick |-> pick, current_round |-> round, current_team_id |-> team]
    ELSE LET p == pick + 1
             r == ((p - 1) \div cfg.league_size) + 1
             picks_in_round == (p - 1) % cfg.league_size
             team_index ==
                 IF cfg.draft_type = "snake"
                 THEN IF r % 2 = 1 THEN picks_in_round
                      ELSE cfg.league_size - 1 - picks_in_round
                 ELSE picks_in_round
         IN  [current_pick |-> p, current_round |-> r,
              current_team_id |-> order[team_index + 1]]

\* check_if_complete comparing with >= instead of >.
Completion_OffByOne(cfg, pick, stamp, now) ==
    LET done == pick >= cfg.league_size * total_rounds(cfg)
    IN  [is_complete |-> done,
         completed_at |-> IF done /\ stamp = None THEN Some(now) ELSE stamp]

\* check_if_complete stamping completed_at on every call that finds the draft done.
Completion_Overwrite(cfg, pick, stamp, now) ==
    LET done == pick > cfg.league_size * total_rounds(cfg)
    IN  [is_complete |-> done,
         completed_at |-> IF done THEN Some(now) ELSE stamp]

\* The (is_complete, completed_at) pair check_if_complete leaves.
Completion(cfg, pick, stamp, now) ==
    LET done == pick > TotalPicks(cfg)
    IN  [is_complete |-> done,
         completed_at |-> IF done /\ stamp = None THEN Some(now) ELSE stamp]

-----------------------------------------------------------------------------
(* RosterValidator *)

\* determine_roster_slot without the FLEX eligibility test.
determine_roster_slot_FlexForAll(team, player_position) ==
    IF get_roster_count(team, player_position)
          < get_position_limit(league_config, player_position)
    THEN player_position
    ELSE IF get_roster_count(team, "FLEX") < get_position_limit(league_config, "FLEX")
         THEN "FLEX"
         ELSE "BENCH"

determine_roster_slot(team, player_position) ==
    IF get_roster_count(team, player_position)
          < get_position_limit(league_config, player_position)
    THEN player_position
    ELSE IF /\ player_position \in FLEX_ELIGIBLE_POSITIONS
            /\ get_roster_count(team, "FLEX") < get_position_limit(league_config, "FLEX")
         THEN "FLEX"
         ELSE "BENCH"

\* validate_final_roster reporting over-filled slots only.
validate_final_roster_OverfillOnly(team) ==
    LET errors == {<<slot, "too_many">> :
                      slot \in {s \in DOMAIN league_config.roster_slots :
                                   get_roster_count(team, s)
                                      > league_config.roster_slots[s]}}
    IN  [ok |-> errors = {}, errors |-> errors]

\* validate_final_roster(team): the (is_valid, errors) pair, an error being
\* the slot it is about and its kind.
validate_final_roster(team) ==
    LET slots == DOMAIN league_config.roster_slots
        missing == {<<slot, "missing">> :
                       slot \in {s \in slots :
                                    get_roster_count(team, s)
                                       < league_config.roster_slots[s]}}
        extra == {<<slot, "too_many">> :
                     slot \in {s \in slots :
                                  get_roster_count(team, s)
                                     > league_config.roster_slots[s]}}
    IN  [ok |-> missing \cup extra = {}, errors |-> missing \cup extra]

-----------------------------------------------------------------------------
(* DraftRules *)

\* _validate_position_limit treating the bench as unbounded.
validate_position_limit_NoBenchLimit(team, position) ==
    \/ get_roster_count(team, position) < get_position_limit(league_config, position)
    \/ /\ position \in FLEX_ELIGIBLE_POSITIONS
       /\ get_roster_count(team, "FLEX") < get_position_limit(league_config, "FLEX")
    \/ get_roster_count(team, "BENCH") >= 0

\* _validate_position_limit without the FLEX eligibility test.
validate_position_limit_FlexForAll(team, position) ==
    \/ get_roster_count(team, position) < get_position_limit(league_config, position)
    \/ get_roster_count(team, "FLEX") < get_position_limit(league_config, "FLEX")
    \/ get_roster_count(team, "BENCH") < get_position_limit(league_config, "BENCH")

validate_position_limit(team, position) ==
    \/ get_roster_count(team, position) < get_position_limit(league_config, position)
    \/ /\ position \in FLEX_ELIGIBLE_POSITIONS
       /\ get_roster_count(team, "FLEX") < get_position_limit(league_config, "FLEX")
    \/ get_roster_count(team, "BENCH") < get_position_limit(league_config, "BENCH")

\* validate_pick testing availability before existence in the catalog.
validate_pick_AvailabilityFirst(team_id, player_id) ==
    IF league_config.draft_mode = "simulation" /\ team_id # current_team_id
    THEN "not_your_turn"
    ELSE IF ~is_player_available(player_id)
    THEN "already_drafted"
    ELSE IF get_player_info(player_id) = None
    THEN "not_found"
    ELSE IF player_data[player_id].position = ""
    THEN "no_position"
    ELSE IF ~validate_position_limit(teams[team_id], player_data[player_id].position)
    THEN "position_full"
    ELSE "ok"

\* validate_pick without the "has already been drafted" test.
validate_pick_NoAvailabilityCheck(team_id, player_id) ==
    IF league_config.draft_mode = "simulation" /\ team_id # current_team_id
    THEN "not_your_turn"
    ELSE IF get_player_info(player_id) = None
    THEN "not_found"
    ELSE IF player_data[player_id].position = ""
    THEN "no_position"
    ELSE IF ~validate_position_limit(teams[team_id], player_data[player_id].position)
    THEN "position_full"
    ELSE "ok"

\* validate_pick without the turn check of simulation mode.
validate_pick_NoTurnCheck(team_id, player_id) ==
    IF get_player_info(player_id) = None
    THEN "not_found"
    ELSE IF ~is_player_available(player_id)
    THEN "already_drafted"
    ELSE IF player_data[player_id].position = ""
    THEN "no_position"
    ELSE IF ~validate_position_limit(teams[team_id], player_data[player_id].position)
    THEN "position_full"
    ELSE "ok"

\* "ok" for (True, None), else the kind of the error message returned.
validate_pick(team_id, player_id) ==
    IF league_config.draft_mode = "simulation" /\ team_id # current_team_id
    THEN "not_your_turn"
    ELSE IF get_player_info(player_id) = None
    THEN "not_found"
    ELSE IF ~is_player_available(player_id)
    THEN "already_drafted"
    ELSE IF player_data[player_id].position = ""
    THEN "no_position"
    ELSE IF ~validate_position_limit(teams[team_id], player_data[player_id].position)
    THEN "position_full"
    ELSE "ok"

\* is_draft_complete comparing with > instead of >=.
is_draft_complete_Strict == Len(all_picks) > TotalPicks(league_config)

\* DraftRules.is_draft_complete()
is_draft_complete == Len(all_picks) >= TotalPicks(league_config)

-----------------------------------------------------------------------------
(* DraftController *)

\* The two callers that may be inside make_pick on the same DraftState.
Callers == {1, 2}

\* The local variables of a caller that is not inside make_pick.
IdleCall ==
    [pc |-> "idle", team_id |-> 0, player_id |-> "", slot |-> "",
     pick |-> PickCreate(0, 0, 0, "", ""), outcome |-> "none"]

\* Nobody is inside make_pick; mutex tells whether the callers serialise
\* their make_pick calls on this draft.
NoCalls == [mutex |-> TRUE, th |-> [c \in Callers |-> IdleCall]]

\* The exception class make_pick raises for an outcome kind: ValidationError
\* for the complete-draft test, for every validate_pick error and for the
\* rollback branch; player_info["position"] on the empty dict is a KeyError.
ErrorClass(kind) ==
    IF kind \in {"ok", "none"} THEN "none"
    ELSE IF kind = "key_error" THEN "KeyError"
    ELSE "ValidationError"

\* make_pick moving the turn cursor on before it raises.
Reject_AdvancesTurn(kind, team_id, player_id) ==
    /\ result' = kind
    /\ current_pick' = current_pick + 1
    /\ UNCHANGED <<calls, storage, calc, draft_id, league_config, current_round, current_team_id, draft_order,
                   teams, all_picks, available_players, is_complete,
                   completed_at, clock, patched>>

\* make_pick raising before any mutation.
Reject(kind, team_id, player_id) ==
    /\ result' = kind
    /\ UNCHANGED <<calls, storage, calc, draftVars, clock, patched>>

\* make_pick past validation: mutate, then remove from the pool or roll back.
Execute(team_id, player_id) ==
    LET team  == teams[team_id]
        slot  == determine_roster_slot(team, player_data[player_id].position)
        pick  == PickCreate(current_pick, current_round, team_id, player_id, slot)
        team1 == add_player(team, player_id, slot)
        log1  == Append(all_picks, pick)
    IN  IF player_id \notin Range(available_players)
        THEN /\ teams' = [teams EXCEPT ![team_id] = remove_player(team1, player_id, slot)]
             /\ all_picks' = ListPop(log1)
             /\ result' = "not_in_pool"
             /\ UNCHANGED <<calls, storage, calc, draft_id, league_config, cursorVars, draft_order,
                            available_players, is_complete, completed_at,
                            clock, patched>>
        ELSE LET cur == NextCursor(league_config, draft_order, is_complete,
                                   current_pick, current_round, current_team_id)
                 fin == Completion(league_config, cur.current_pick, completed_at, clock)
             IN  /\ teams' = [teams EXCEPT ![team_id] = team1]
                 /\ all_picks' = log1
                 /\ available_players' = ListRemove(available_players, player_id)
                 /\ current_pick' = cur.current_pick
                 /\ current_round' = cur.current_round
                 /\ current_team_id' = cur.current_team_id
                 /\ is_complete' = fin.is_complete
                 /\ completed_at' = fin.completed_at
                 /\ result' = "ok"
                 /\ UNCHANGED <<calls, storage, calc, draft_id, league_config, draft_order, clock, patched>>

\* make_pick without its "Draft is already complete" test.
MakePick_NoCompleteGuard(team_id, player_id) ==
    LET verdict == IF patched THEN "ok" ELSE validate_pick(team_id, player_id)
    IN  IF verdict # "ok"
        THEN Reject(verdict, team_id, player_id)
        ELSE IF player_id \notin DOMAIN player_data
        THEN Reject("key_error", team_id, player_id)
        ELSE Execute(team_id, player_id)

MakePick(team_id, player_id) ==
    IF is_complete
    THEN Reject("already_complete", team_id, player_id)
    ELSE LET verdict == IF patched THEN "ok" ELSE validate_pick(team_id, player_id)
         IN  IF verdict # "ok"
             THEN Reject(verdict, team_id, player_id)
             ELSE IF player_id \notin DOMAIN player_data
             THEN Reject("key_error", team_id, player_id)
             ELSE Execute(team_id, player_id)

-----------------------------------------------------------------------------
(* DraftController: end-of-draft summary *)

\* round(x, 1) on a number of hundredths.  A value halfway between two
\* tenths goes to the even one here; the catalog has no such sum.
Round1(x) ==
    LET r == x % 10
    IN  IF r < 5 THEN x - r
        ELSE IF r > 5 THEN x + (10 - r)
        ELSE IF ((x - r) \div 10) % 2 = 0 THEN x - r ELSE x + (10 - r)

\* player.get("projections", {}).get(scoring_format, 0)
PlayerPoints(player_id, scoring_format) ==
    IF player_id \notin DOMAIN projections THEN 0
    ELSE IF scoring_format \in DOMAIN projections[player_id]
         THEN projections[player_id][scoring_format]
         ELSE 0

RECURSIVE SlotPoints(_, _)
SlotPoints(player_ids, scoring_format) ==
    IF player_ids = <<>> THEN 0
    ELSE PlayerPoints(Head(player_ids), scoring_format)
            + SlotPoints(Tail(player_ids), scoring_format)

\* _calculate_team_points adding the bench as well.
calculate_team_points_WithBench(team, scoring_format) ==
    Round1(SumOver([slot \in DOMAIN team.roster |->
                       SlotPoints(team.roster[slot], scoring_format)],
                   DOMAIN team.roster))

calculate_team_points(team, scoring_format) ==
    Round1(SumOver([slot \in DOMAIN team.roster |->
                       SlotPoints(team.roster[slot], scoring_format)],
                   DOMAIN team.roster \ {"BENCH"}))

\* The summary of the draft as it stands, whether complete or not.
DraftSummary ==
    [completed_at |-> completed_at,
     total_picks |-> Len(all_picks),
     teams |-> [i \in 1..Cardinality(DOMAIN teams) |->
                  [team_id |-> i - 1,
                   roster |-> teams[i - 1].roster,
                   projected_points |->
                       calculate_team_points(teams[i - 1],
                                             league_config.scoring_format)]]]

\* get_draft_summary without its "Draft not complete" test.
get_draft_summary_NoGuard == DraftSummary

get_draft_summary ==
    IF ~is_complete THEN [error |-> "Draft not complete"] ELSE DraftSummary

\* get_available_players returning the players last to first.
get_available_players_Reversed(position) ==
    LET kept == SelectSeq(available_players,
                          LAMBDA pid : \/ position = None
                                       \/ player_data[pid].position = position[1])
    IN  [i \in DOMAIN kept |-> kept[Len(kept) + 1 - i]]

\* The player ids of the info dicts get_available_players returns; position
\* is None or Some(p).
get_available_players(position) ==
    SelectSeq(available_players,
              LAMBDA pid : \/ position = None
                           \/ player_data[pid].position = position[1])

GetDraftSummary ==
    /\ result' = IF "error" \in DOMAIN get_draft_summary
                 THEN "not_complete" ELSE "summary"
    /\ UNCHANGED <<calls, storage, calc, draftVars, clock, patched>>

-----------------------------------------------------------------------------
(* DynamicVORCalculator *)

VOR_BASELINE_COUNTS ==
    [QB |-> 12, RB |-> 36, WR |-> 36, TE |-> 12, K |-> 12, DST |-> 12]

\* POSITION_SCARCITY_WEIGHTS, in tenths.
POSITION_SCARCITY_WEIGHTS ==
    [QB |-> 12, RB |-> 20, WR |-> 18, TE |-> 15, K |-> 10, DST |-> 10]

\* ROSTER_NEED_WEIGHT = 0.5, in tenths.
ROSTER_NEED_WEIGHT == 5

\* _calculate_scarcity_multiplier without min(..., 1.0).
calculate_scarcity_multiplier_Uncapped(position, drafted_count) ==
    LET total_startable == MapGet(VOR_BASELINE_COUNTS, position, 1)
        drafted_pct == Rat(drafted_count, total_startable)
        weight == Rat(MapGet(POSITION_SCARCITY_WEIGHTS, position, 10), 10)
    IN  RatAdd(Rat(1, 1), RatMul(drafted_pct, weight))

calculate_scarcity_multiplier(position, drafted_count) ==
    LET total_startable == MapGet(VOR_BASELINE_COUNTS, position, 1)
        drafted_pct == RatMin(Rat(drafted_count, total_startable), Rat(1, 1))
        weight == Rat(MapGet(POSITION_SCARCITY_WEIGHTS, position, 10), 10)
    IN  RatAdd(Rat(1, 1), RatMul(drafted_pct, weight))

\* _count_position_slots adding FLEX for every position.
count_position_slots_FlexForAll(position, team_roster, roster_slots) ==
    [filled |-> Len(MapGet(team_roster, position, <<>>))
                   + Len(MapGet(team_roster, "FLEX", <<>>)),
     total  |-> MapGet(roster_slots, position, 0) + MapGet(roster_slots, "FLEX", 0)]

\* The (filled, total) pair of _count_position_slots.
count_position_slots(position, team_roster, roster_slots) ==
    LET filled == Len(MapGet(team_roster, position, <<>>))
        total  == MapGet(roster_slots, position, 0)
    IN  IF position \in FLEX_ELIGIBLE_POSITIONS
        THEN [filled |-> filled + Len(MapGet(team_roster, "FLEX", <<>>)),
              total  |-> total + MapGet(roster_slots, "FLEX", 0)]
        ELSE [filled |-> filled, total |-> total]

calculate_need_multiplier(position, team_roster, roster_slots) ==
    LET c == count_position_slots(position, team_roster, roster_slots)
    IN  IF c.total = 0 THEN Rat(1, 1)
        ELSE LET empty == IF c.total - c.filled > 0 THEN c.total - c.filled ELSE 0
             IN  RatAdd(Rat(1, 1),
                        RatMul(Rat(empty, c.total), Rat(ROSTER_NEED_WEIGHT, 10)))

\* player.get("baseline_vor", {}).get(scoring_format, 0.0)
BaseVor(player_id, scoring_format) ==
    MapGet(MapGet(baseline_vor, player_id, EmptyMap), scoring_format, 0)

\* One step of the sort placing a player ahead of those it ties with.
InsertDesc_BeforeTies(sorted, player_id, scoring_format) ==
    LET ahead == {i \in DOMAIN sorted :
                     BaseVor(sorted[i], scoring_format)
                        > BaseVor(player_id, scoring_format)}
        k == Cardinality(ahead)
    IN  SubSeq(sorted, 1, k) \o <<player_id>> \o SubSeq(sorted, k + 1, Len(sorted))

\* One step of sorted(..., reverse=True): the player goes behind every entry
\* of the descending list whose key is not smaller (the sort is stable).
InsertDesc(sorted, player_id, scoring_format) ==
    LET ahead == {i \in DOMAIN sorted :
                     BaseVor(sorted[i], scoring_format)
                        >= BaseVor(player_id, scoring_format)}
        k == Cardinality(ahead)
    IN  SubSeq(sorted, 1, k) \o <<player_id>> \o SubSeq(sorted, k + 1, Len(sorted))

RECURSIVE SortedDesc(_, _)
SortedDesc(players, scoring_format) ==
    IF players = <<>> THEN <<>>
    ELSE InsertDesc(SortedDesc(SubSeq(players, 1, Len(players) - 1), scoring_format),
                    players[Len(players)], scoring_format)

\* _compute_position_ranks: player id -> 1-based rank within its position.
compute_position_ranks(available, scoring_format) ==
    [pid \in Range(available) |->
        LET group == SelectSeq(available,
                               LAMBDA q : player_data[q].position
                                             = player_data[pid].position)
            order == SortedDesc(group, scoring_format)
        IN  CHOOSE r \in DOMAIN order : order[r] = pid]

\* calculate_dynamic_vor never returning a negative dynamic VOR.
calculate_dynamic_vor_ClampsNegative(scoring_format, available, drafted_positions, roster_slots, team_roster) ==
    LET position_ranks == compute_position_ranks(available, scoring_format)
    IN  [pid \in Range(available) |->
            LET position == player_data[pid].position
                base_vor == BaseVor(pid, scoring_format)
                scarcity == calculate_scarcity_multiplier(
                                position, MapGet(drafted_positions, position, 0))
                need == calculate_need_multiplier(position, team_roster, roster_slots)
            IN  [player_id |-> pid,
                 base_vor |-> base_vor,
                 dynamic_vor |-> RatMax(Rat(0, 1),
                                        RatMul(RatMul(Rat(base_vor, 1), scarcity), need)),
                 scarcity_multiplier |-> scarcity,
                 need_multiplier |-> need,
                 position |-> position,
                 position_rank |-> MapGet(position_ranks, pid, 0)]]

\* calculate_dynamic_vor of a calculator built for scoring_format: player id
\* -> VORResult, VOR values in hundredths of a point.
calculate_dynamic_vor(scoring_format, available, drafted_positions, roster_slots, team_roster) ==
    LET position_ranks == compute_position_ranks(available, scoring_format)
    IN  [pid \in Range(available) |->
            LET position == player_data[pid].position
                base_vor == BaseVor(pid, scoring_format)
                scarcity == calculate_scarcity_multiplier(
                                position, MapGet(drafted_positions, position, 0))
                need == calculate_need_multiplier(position, team_roster, roster_slots)
            IN  [player_id |-> pid,
                 base_vor |-> base_vor,
                 dynamic_vor |-> RatMul(RatMul(Rat(base_vor, 1), scarcity), need),
                 scarcity_multiplier |-> scarcity,
                 need_multiplier |-> need,
                 position |-> position,
                 position_rank |-> MapGet(position_ranks, pid, 0)]]

\* The (team, slot, index) places of the FLEX and BENCH lists.
FlexBenchPlaces ==
    UNION {{<<t, s, i>> : i \in DOMAIN teams[t].roster[s]} :
              t \in DOMAIN teams,
              s \in {"FLEX", "BENCH"} \cap DOMAIN league_config.roster_slots}

\* The drafted-position count attributing FLEX and BENCH picks to the slot.
DraftedPositions_BySlotName ==
    [k \in DOMAIN league_config.roster_slots |->
        SumOver([t \in DOMAIN teams |-> Len(teams[t].roster[k])], DOMAIN teams)]

\* drafted_positions as calculate_from_draft_state counts it: the position
\* slots by their name, FLEX and BENCH by the catalog position of each player.
DraftedPositions ==
    LET slot_keys == DOMAIN league_config.roster_slots \ {"FLEX", "BENCH"}
        placed == {pl \in FlexBenchPlaces :
                      teams[pl[1]].roster[pl[2]][pl[3]] \in DOMAIN player_data}
        pos_of(pl) == player_data[teams[pl[1]].roster[pl[2]][pl[3]]].position
    IN  [k \in slot_keys \cup {pos_of(pl) : pl \in placed} |->
            (IF k \in slot_keys
             THEN SumOver([t \in DOMAIN teams |-> Len(teams[t].roster[k])],
                          DOMAIN teams)
             ELSE 0)
            + Cardinality({pl \in placed : pos_of(pl) = k})]

\* A calculator call: its arguments and what it returned.
CallRecord(scoring_format, available, drafted_positions, roster_slots, team_roster, results) ==
    [scoring_format |-> scoring_format,
     available_players |-> available,
     drafted_positions |-> drafted_positions,
     roster_slots |-> roster_slots,
     team_roster |-> team_roster,
     results |-> results,
     called |-> TRUE]

\* No calculator call has been made.
NoCall ==
    [scoring_format |-> "", available_players |-> <<>>,
     drafted_positions |-> EmptyMap, roster_slots |-> EmptyMap,
     team_roster |-> EmptyMap, results |-> EmptyMap, called |-> FALSE]

\* calculate_from_draft_state(draft_state, team_id) of a calculator built for
\* scoring_format.
calculate_from_draft_state(scoring_format, team_id) ==
    CallRecord(scoring_format, available_players, DraftedPositions,
               league_config.roster_slots, teams[team_id].roster,
               calculate_dynamic_vor(scoring_format, available_players,
                                     DraftedPositions, league_config.roster_slots,
                                     teams[team_id].roster))

\* calculate_dynamic_vor called with the arguments calc holds.
CalculateDynamicVorCall ==
    /\ ~calc.called
    /\ calc' = [calc EXCEPT
                  !.called = TRUE,
                  !.results = calculate_dynamic_vor(
                                  calc.scoring_format, calc.available_players,
                                  calc.drafted_positions, calc.roster_slots,
                                  calc.team_roster)]
    /\ result' = "returned"
    /\ UNCHANGED <<calls, storage, draftVars, clock, patched>>

-----------------------------------------------------------------------------
(* Read-only calls: each returns or raises and assigns nothing *)

\* DraftRules.validate_pick(team_id, player_id)
ValidatePickCall(team_id, player_id) ==
    /\ result' = "returned"
    /\ UNCHANGED <<calls, storage, calc, draftVars, clock, patched>>

\* DraftRules.is_draft_complete()
IsDraftCompleteCall ==
    /\ result' = "returned"
    /\ UNCHANGED <<calls, storage, calc, draftVars, clock, patched>>

\* RosterValidator.determine_roster_slot(team, player_position)
DetermineRosterSlotCall(team_id, player_position) ==
    /\ result' = "returned"
    /\ UNCHANGED <<calls, storage, calc, draftVars, clock, patched>>

\* get_available_players emptying the list it walks.
GetAvailablePlayersCall_Draining(position) ==
    /\ result' = "returned"
    /\ available_players' = <<>>
    /\ UNCHANGED <<calls, storage, calc, draft_id, league_config, cursorVars, draft_order, teams, all_picks,
                   is_complete, completed_at, clock, patched>>

\* DraftController.get_available_players(position)
GetAvailablePlayersCall(position) ==
    /\ result' = "returned"
    /\ UNCHANGED <<calls, storage, calc, draftVars, clock, patched>>

\* DraftController.get_team_roster(team_id); teams[team_id] raises
\* IndexError for an id past the last team.
GetTeamRosterCall(team_id) ==
    /\ result' = IF team_id \in DOMAIN teams THEN "returned" ELSE "raised"
    /\ UNCHANGED <<calls, storage, calc, draftVars, clock, patched>>

\* DynamicVORCalculator.calculate_from_draft_state(draft_state, team_id),
\* which ends in calculate_dynamic_vor on the lists it has built.
CalculateFromDraftStateCall(team_id) ==
    /\ IF team_id \in DOMAIN teams
       THEN /\ result' = "returned"
            /\ calc' = calculate_from_draft_state(league_config.scoring_format,
                                                  team_id)
       ELSE /\ result' = "raised"
            /\ calc' = calc
    /\ UNCHANGED <<calls, storage, draftVars, clock, patched>>

-----------------------------------------------------------------------------
(* Direct calls on DraftState *)

AdvanceToNextPick ==
    /\ current_pick < TotalPicks(league_config) + 1 + MaxOverrun
    /\ LET cur == NextCursor(league_config, draft_order, is_complete,
                             current_pick, current_round, current_team_id)
       IN  /\ current_pick' = cur.current_pick
           /\ current_round' = cur.current_round
           /\ current_team_id' = cur.current_team_id
    /\ UNCHANGED <<calls, storage, calc, draft_id, league_config, draft_order, teams, all_picks,
                   available_players, is_complete, completed_at,
                   clock, patched, result>>

CheckIfComplete ==
    /\ LET fin == Completion(league_config, current_pick, completed_at, clock)
       IN  /\ is_complete' = fin.is_complete
           /\ completed_at' = fin.completed_at
    /\ UNCHANGED <<calls, storage, calc, draft_id, league_config, cursorVars, draft_order, teams, all_picks,
                   available_players, clock, patched, result>>

-----------------------------------------------------------------------------
(* Environment *)

Tick ==
    /\ clock < MaxClock
    /\ clock' = clock + 1
    /\ UNCHANGED <<calls, storage, calc, draftVars, patched, result>>

\* The test double: rules.validate_pick = lambda: (True, None).
PatchValidatePick ==
    /\ ~patched
    /\ patched' = TRUE
    /\ UNCHANGED <<calls, storage, calc, draftVars, clock, result>>

-----------------------------------------------------------------------------
(* Specifications *)

\* The draft ids uuid4 hands out, in this order.
FirstDraftId == "d1"

SecondDraftId == "d2"

DraftIds == {FirstDraftId, SecondDraftId}

\* The storage directory with no draft file and no active_draft.json link.
EmptyStorage == [files |-> [d \in DraftIds |-> None], active |-> None]

\* The fields DraftState.create_new gives a new draft of configuration cfg.
create_new(cfg) ==
    LET order == [i \in 1..cfg.league_size |-> i - 1]
    IN  [current_pick |-> 1,
         current_round |-> 1,
         draft_order |-> order,
         current_team_id |-> order[1],
         teams |-> [t \in 0..(cfg.league_size - 1) |->
                      [roster |-> [s \in SlotNames |-> <<>>], picks |-> <<>>]],
         all_picks |-> <<>>,
         available_players |-> CatalogOrder,
         is_complete |-> FALSE,
         completed_at |-> None]

\* The draft of league_config has just been created.
FreshDraft ==
    LET new == create_new(league_config)
    IN  /\ current_pick = new.current_pick
        /\ current_round = new.current_round
        /\ draft_order = new.draft_order
        /\ current_team_id = new.current_team_id
        /\ teams = new.teams
        /\ all_picks = new.all_picks
        /\ available_players = new.available_players
        /\ is_complete = new.is_complete
        /\ completed_at = new.completed_at
        /\ draft_id = FirstDraftId
        /\ clock = 0
        /\ patched = FALSE
        /\ result = "none"
        /\ storage = EmptyStorage
        /\ calls = NoCalls
        /\ calc = NoCall

\* DraftState.create_new for one of the league configurations.
Init ==
    /\ league_config \in LeagueConfigs
    /\ FreshDraft

\* The draft driven through DraftController.make_pick alone.
Next ==
    \/ \E t \in TeamIds, p \in PlayerInputs : MakePick(t, p)
    \/ Tick

Spec == Init /\ [][Next]_vars

\* The league configurations of the two wider specifications below.
SmallConfigs ==
    { Config(2, "snake", "simulation", SlotsNoBench),
      Config(2, "snake", "simulation", SlotsQBOnly) }

InitSmall == Init /\ league_config \in SmallConfigs

\* The draft driven through the controller and through DraftState's own methods.
NextState ==
    \/ \E t \in TeamIds, p \in PlayerInputs : MakePick(t, p)
    \/ AdvanceToNextPick
    \/ CheckIfComplete
    \/ Tick

SpecState == InitSmall /\ [][NextState]_vars

\* The draft with validate_pick stubbed out at some point, so that make_pick
\* reaches its rollback branch; the clock stands still here.
NextFault ==
    \/ \E t \in TeamIds, p \in PlayerInputs : MakePick(t, p)
    \/ PatchValidatePick

SpecFault == InitSmall /\ [][NextFault]_vars

\* The league configurations of the draft with its read-only operations.
QueryConfigs ==
    { Config(2, "snake", "simulation", SlotsFlexBench),
      WithScoring(Config(2, "snake", "manual_tracker", SlotsQBOnly), "standard") }

InitQuery ==
    /\ league_config \in QueryConfigs
    /\ FreshDraft

\* Team ids a caller passes: the league's and one past the last.
TeamInputs == 0..league_config.league_size

\* The draft driven through make_pick, with the read-only operations called
\* in between; the clock stands still here.
NextQuery ==
    \/ \E t \in TeamIds, p \in PlayerInputs : MakePick(t, p)
    \/ GetDraftSummary
    \/ \E t \in TeamIds, p \in PlayerInputs : ValidatePickCall(t, p)
    \/ IsDraftCompleteCall
    \/ \E t \in TeamIds, pos \in SlotNames : DetermineRosterSlotCall(t, pos)
    \/ \E pos \in SlotNames : GetAvailablePlayersCall(pos)
    \/ \E t \in TeamInputs : GetTeamRosterCall(t)
    \/ \E t \in TeamInputs : CalculateFromDraftStateCall(t)

SpecQuery == InitQuery /\ [][NextQuery]_vars

-----------------------------------------------------------------------------
(* DynamicVORCalculator on its own *)

\* Drafted counts run from 0 to MaxDrafted, past the largest baseline count.
MaxDrafted == 40

\* drafted_positions arguments: no key, or one position with a count.
DraftedMaps ==
    {EmptyMap} \cup {[p \in {pos} |-> d] : pos \in {"QB", "RB", "K"},
                                           d \in 0..MaxDrafted}

SlotsStandard ==
    [QB |-> 1, RB |-> 2, WR |-> 2, TE |-> 1, FLEX |-> 1, K |-> 1, BENCH |-> 1]

\* team_roster arguments: empty, one RB, RB and FLEX taken, two QBs in a
\* one-QB league's slot.
TeamRosterInputs ==
    LET empty == [s \in SlotNames |-> <<>>]
    IN  { empty,
          [empty EXCEPT !["RB"] = <<"rb1">>],
          [empty EXCEPT !["RB"] = <<"rb1">>, !["FLEX"] = <<"wr1">>],
          [empty EXCEPT !["QB"] = <<"qb1", "qb2">>] }

\* available_players arguments: none, the catalog, a list out of catalog order.
AvailableInputs ==
    { <<>>, CatalogOrder, <<"qb2", "rb2", "qb1", "rb1", "wr1">> }

CalcCalls ==
    [scoring_format : {"standard", "half_ppr"},
     available_players : AvailableInputs,
     drafted_positions : DraftedMaps,
     roster_slots : {SlotsChain, SlotsStandard, SlotsNone},
     team_roster : TeamRosterInputs,
     results : {EmptyMap},
     called : {FALSE}]

\* The stateless calculator about to be called; no draft is involved.
InitVOR ==
    /\ draft_id = ""
    /\ league_config = EmptyMap
    /\ current_pick = 0
    /\ current_round = 0
    /\ current_team_id = 0
    /\ draft_order = <<>>
    /\ teams = <<>>
    /\ all_picks = <<>>
    /\ available_players = <<>>
    /\ is_complete = FALSE
    /\ completed_at = None
    /\ clock = 0
    /\ patched = FALSE
    /\ result = "none"
    /\ storage = EmptyStorage
    /\ calls = NoCalls
    /\ calc \in CalcCalls

NextVOR == CalculateDynamicVorCall

SpecVOR == InitVOR /\ [][NextVOR]_vars

-----------------------------------------------------------------------------
(* The simulation draft under a fair scheduler *)

LiveConfigs ==
    { Config(2, "snake", "simulation", SlotsNone),
      Config(2, "snake", "simulation", SlotsQBOnly),
      Config(2, "snake", "simulation", SlotsNoBench) }

InitLive ==
    /\ league_config \in LiveConfigs
    /\ FreshDraft

\* make_pick called with any team and any catalog id or an unknown id.
NextLive ==
    \E t \in TeamIds, p \in DOMAIN player_data \cup {UnknownPlayer} : MakePick(t, p)

\* A make_pick call that returns a Pick.
PickSucceeds ==
    \E t \in TeamIds, p \in DOMAIN player_data : MakePick(t, p) /\ result' = "ok"

\* The caller keeps calling make_pick and does not forever avoid the legal picks.
SpecLive == InitLive /\ [][NextLive]_vars /\ WF_vars(PickSucceeds)

-----------------------------------------------------------------------------
(* DraftController.make_pick, one statement at a time *)

\* The statement caller c is about to execute.
At(c, label) == calls.th[c].pc = label

\* Caller c moves to the next statement with its locals updated.
Goto(c, label, locals) ==
    calls' = [calls EXCEPT !.th[c] = [pc |-> label] @@ locals @@ @]

\* make_pick raises or returns in caller c.
Leave(c, kind) ==
    /\ Goto(c, "done", [outcome |-> kind])
    /\ result' = kind

\* Entering make_pick without waiting for the call in progress.
MayEnter_NeverWaits(c) == TRUE

\* One writer at a time: with the mutex, a caller enters make_pick only
\* while no other caller is inside it.
MayEnter(c) ==
    calls.mutex => \A d \in Callers \ {c} : calls.th[d].pc \in {"idle", "done"}

\* make_pick(team_id, player_id) is called.
EnterMakePick(c, team_id, player_id) ==
    /\ At(c, "idle")
    /\ MayEnter(c)
    /\ Goto(c, "check_complete", [team_id |-> team_id, player_id |-> player_id])
    /\ UNCHANGED <<storage, calc, draftVars, clock, patched, result>>

\* if self.draft_state.is_complete: raise
TestComplete(c) ==
    /\ At(c, "check_complete")
    /\ IF is_complete
       THEN Leave(c, "already_complete")
       ELSE Goto(c, "validate", <<>>) /\ UNCHANGED result
    /\ UNCHANGED <<storage, calc, draftVars, clock, patched>>

\* is_valid, error_msg = self.rules.validate_pick(...); if not is_valid: raise
ValidateStep(c) ==
    /\ At(c, "validate")
    /\ LET verdict == validate_pick(calls.th[c].team_id, calls.th[c].player_id)
       IN  IF verdict # "ok"
           THEN Leave(c, verdict)
           ELSE Goto(c, "slot", <<>>) /\ UNCHANGED result
    /\ UNCHANGED <<storage, calc, draftVars, clock, patched>>

\* player_info, team and slot are read.
SlotStep(c) ==
    /\ At(c, "slot")
    /\ LET me == calls.th[c]
       IN  Goto(c, "create",
                [slot |-> determine_roster_slot(teams[me.team_id],
                                                player_data[me.player_id].position)])
    /\ UNCHANGED <<storage, calc, draftVars, clock, patched, result>>

\* pick = Pick.create(pick_number=current_pick, round=current_round, ...)
CreateStep(c) ==
    /\ At(c, "create")
    /\ LET me == calls.th[c]
       IN  Goto(c, "add",
                [pick |-> PickCreate(current_pick, current_round, me.team_id,
                                     me.player_id, me.slot)])
    /\ UNCHANGED <<storage, calc, draftVars, clock, patched, result>>

\* team.add_player(player_id, slot)
AddStep(c) ==
    /\ At(c, "add")
    /\ LET me == calls.th[c]
       IN  teams' = [teams EXCEPT ![me.team_id] = add_player(@, me.player_id, me.slot)]
    /\ Goto(c, "append", <<>>)
    /\ UNCHANGED <<storage, calc, draft_id, league_config, cursorVars, draft_order,
                   all_picks, available_players, is_complete, completed_at,
                   clock, patched, result>>

\* self.draft_state.all_picks.append(pick)
AppendStep(c) ==
    /\ At(c, "append")
    /\ all_picks' = Append(all_picks, calls.th[c].pick)
    /\ Goto(c, "remove", <<>>)
    /\ UNCHANGED <<storage, calc, draft_id, league_config, cursorVars, draft_order,
                   teams, available_players, is_complete, completed_at,
                   clock, patched, result>>

\* try: available_players.remove(player_id) / except ValueError
RemoveStep(c) ==
    /\ At(c, "remove")
    /\ LET p == calls.th[c].player_id
       IN  IF p \in Range(available_players)
           THEN /\ available_players' = ListRemove(available_players, p)
                /\ Goto(c, "advance", <<>>)
           ELSE /\ UNCHANGED available_players
                /\ Goto(c, "undo_add", <<>>)
    /\ UNCHANGED <<storage, calc, draft_id, league_config, cursorVars, draft_order,
                   teams, all_picks, is_complete, completed_at,
                   clock, patched, result>>

\* team.remove_player(player_id, slot) in the except branch; list.remove of
\* an id that is no longer there raises ValueError out of make_pick.
UndoAddStep(c) ==
    /\ At(c, "undo_add")
    /\ LET me == calls.th[c]
           team == teams[me.team_id]
       IN  IF /\ me.player_id \in Range(team.roster[me.slot])
              /\ me.player_id \in Range(team.picks)
           THEN /\ teams' = [teams EXCEPT ![me.team_id] =
                                 remove_player(@, me.player_id, me.slot)]
                /\ Goto(c, "undo_append", <<>>)
                /\ UNCHANGED result
           ELSE /\ UNCHANGED teams
                /\ Leave(c, "value_error")
    /\ UNCHANGED <<storage, calc, draft_id, league_config, cursorVars, draft_order,
                   all_picks, available_players, is_complete, completed_at,
                   clock, patched>>

\* self.draft_state.all_picks.pop(); raise ValidationError
UndoAppendStep(c) ==
    /\ At(c, "undo_append")
    /\ all_picks' = ListPop(all_picks)
    /\ Leave(c, "not_in_pool")
    /\ UNCHANGED <<storage, calc, draft_id, league_config, cursorVars, draft_order,
                   teams, available_players, is_complete, completed_at,
                   clock, patched>>

\* logger.info(...); self.advance_to_next_pick()
AdvanceStep(c) ==
    /\ At(c, "advance")
    /\ LET cur == NextCursor(league_config, draft_order, is_complete,
                             current_pick, current_round, current_team_id)
       IN  /\ current_pick' = cur.current_pick
           /\ current_round' = cur.current_round
           /\ current_team_id' = cur.current_team_id
    /\ Goto(c, "check", <<>>)
    /\ UNCHANGED <<storage, calc, draft_id, league_config, draft_order, teams, all_picks,
                   available_players, is_complete, completed_at,
                   clock, patched, result>>

\* self.check_if_complete(); return pick
CheckStep(c) ==
    /\ At(c, "check")
    /\ LET fin == Completion(league_config, current_pick, completed_at, clock)
       IN  /\ is_complete' = fin.is_complete
           /\ completed_at' = fin.completed_at
    /\ Leave(c, "ok")
    /\ UNCHANGED <<storage, calc, draft_id, league_config, cursorVars, draft_order,
                   teams, all_picks, available_players, clock, patched>>

RaceConfigs ==
    { Config(2, "snake", "simulation", SlotsQBOnly),
      Config(2, "snake", "manual_tracker", SlotsQBOnly) }

\* The player ids the two callers pick.
RacePlayers == {"qb1", "qb2"}

\* A fresh draft shared by two callers, with or without the mutex.
InitRace ==
    /\ league_config \in RaceConfigs
    /\ LET new == create_new(league_config)
       IN  /\ current_pick = new.current_pick
           /\ current_round = new.current_round
           /\ draft_order = new.draft_order
           /\ current_team_id = new.current_team_id
           /\ teams = new.teams
           /\ all_picks = new.all_picks
           /\ available_players = new.available_players
           /\ is_complete = new.is_complete
           /\ completed_at = new.completed_at
    /\ draft_id = FirstDraftId
    /\ clock = 0
    /\ patched = FALSE
    /\ result = "none"
    /\ storage = EmptyStorage
    /\ calc = NoCall
    /\ calls \in [mutex : BOOLEAN, th : {NoCalls.th}]

NextRace ==
    \E c \in Callers :
        \/ \E t \in TeamIds, p \in RacePlayers : EnterMakePick(c, t, p)
        \/ TestComplete(c)
        \/ ValidateStep(c)
        \/ SlotStep(c)
        \/ CreateStep(c)
        \/ AddStep(c)
        \/ AppendStep(c)
        \/ RemoveStep(c)
        \/ UndoAddStep(c)
        \/ UndoAppendStep(c)
        \/ AdvanceStep(c)
        \/ CheckStep(c)

SpecRace == InitRace /\ [][NextRace]_vars

-----------------------------------------------------------------------------
(* StatePersistence *)

\* Pick.slot of a record written before slots were stored: Python's None.
NoSlot == "none"

\* The DraftState object in memory.
DraftStateRecord ==
    [draft_id |-> draft_id,
     league_config |-> league_config,
     current_pick |-> current_pick,
     current_round |-> current_round,
     current_team_id |-> current_team_id,
     draft_order |-> draft_order,
     teams |-> teams,
     all_picks |-> all_picks,
     available_players |-> available_players,
     is_complete |-> is_complete,
     completed_at |-> completed_at]

\* _draft_state_to_dict: the JSON document of a state.  teams becomes a list
\* of team objects, a missing slot and a missing completed_at become null.
draft_state_to_dict(state) ==
    [draft_id |-> state.draft_id,
     league_config |->
        [league_size |-> state.league_config.league_size,
         scoring_format |-> state.league_config.scoring_format,
         draft_type |-> state.league_config.draft_type,
         draft_mode |-> state.league_config.draft_mode,
         roster_slots |-> state.league_config.roster_slots],
     current_pick |-> state.current_pick,
     current_round |-> state.current_round,
     current_team_id |-> state.current_team_id,
     draft_order |-> state.draft_order,
     teams |-> [i \in 1..state.league_config.league_size |->
                  [team_id |-> i - 1,
                   roster |-> state.teams[i - 1].roster,
                   picks |-> state.teams[i - 1].picks]],
     all_picks |-> [i \in DOMAIN state.all_picks |->
                      LET pick == state.all_picks[i]
                      IN  [pick_number |-> pick.pick_number,
                           round |-> pick.round,
                           team_id |-> pick.team_id,
                           player_id |-> pick.player_id,
                           timestamp |-> pick.timestamp,
                           slot |-> IF pick.slot = NoSlot THEN None
                                    ELSE Some(pick.slot)]],
     available_players |-> state.available_players,
     is_complete |-> state.is_complete,
     completed_at |-> state.completed_at]

\* _dict_to_draft_state reading is_complete as False whatever the file says.
dict_to_draft_state_DropsComplete(data) ==
    [draft_id |-> data.draft_id,
     league_config |->
        [league_size |-> data.league_config.league_size,
         draft_type |-> data.league_config.draft_type,
         draft_mode |-> data.league_config.draft_mode,
         roster_slots |-> data.league_config.roster_slots,
         scoring_format |-> data.league_config.scoring_format],
     current_pick |-> data.current_pick,
     current_round |-> data.current_round,
     current_team_id |-> data.current_team_id,
     draft_order |-> data.draft_order,
     teams |-> [t \in 0..(Len(data.teams) - 1) |->
                  [roster |-> data.teams[t + 1].roster,
                   picks |-> data.teams[t + 1].picks]],
     all_picks |-> [i \in DOMAIN data.all_picks |->
                      LET pd == data.all_picks[i]
                      IN  [pick_number |-> pd.pick_number,
                           round |-> pd.round,
                           team_id |-> pd.team_id,
                           player_id |-> pd.player_id,
                           timestamp |-> pd.timestamp,
                           slot |-> IF pd.slot = None THEN NoSlot ELSE pd.slot[1]]],
     available_players |-> data.available_players,
     is_complete |-> FALSE,
     completed_at |-> data.completed_at]

\* _dict_to_draft_state: the state a JSON document describes.  The teams
\* list is indexed by position from 0; draft_type, draft_mode, slot,
\* is_complete and completed_at fall back to a default when the key is absent.
dict_to_draft_state(data) ==
    LET lc == data.league_config
    IN  [draft_id |-> data.draft_id,
         league_config |->
            [league_size |-> lc.league_size,
             draft_type |-> IF "draft_type" \in DOMAIN lc
                            THEN lc.draft_type ELSE "snake",
             draft_mode |-> IF "draft_mode" \in DOMAIN lc
                            THEN lc.draft_mode ELSE "simulation",
             roster_slots |-> lc.roster_slots,
             scoring_format |-> lc.scoring_format],
         current_pick |-> data.current_pick,
         current_round |-> data.current_round,
         current_team_id |-> data.current_team_id,
         draft_order |-> data.draft_order,
         teams |-> [t \in 0..(Len(data.teams) - 1) |->
                      [roster |-> data.teams[t + 1].roster,
                       picks |-> data.teams[t + 1].picks]],
         all_picks |-> [i \in DOMAIN data.all_picks |->
                          LET pd == data.all_picks[i]
                          IN  [pick_number |-> pd.pick_number,
                               round |-> pd.round,
                               team_id |-> pd.team_id,
                               player_id |-> pd.player_id,
                               timestamp |-> pd.timestamp,
                               slot |-> IF "slot" \in DOMAIN pd /\ pd.slot # None
                                        THEN pd.slot[1] ELSE NoSlot]],
         available_players |-> data.available_players,
         is_complete |-> IF "is_complete" \in DOMAIN data
                         THEN data.is_complete ELSE FALSE,
         completed_at |-> IF "completed_at" \in DOMAIN data
                          THEN data.completed_at ELSE None]

\* The storage directory after save_draft(state): the draft's file is
\* written and the active link points at it.
save_draft(store, state) ==
    [files |-> [store.files EXCEPT ![state.draft_id] =
                                       Some(draft_state_to_dict(state))],
     active |-> Some(state.draft_id)]

\* load_draft(draft_id): None when the file does not exist.
load_draft(store, id) ==
    IF id \notin DOMAIN store.files \/ store.files[id] = None
    THEN None
    ELSE Some(dict_to_draft_state(store.files[id][1]))

\* load_active_draft(): None without a link or with a link to a missing file.
load_active_draft(store) ==
    IF store.active = None THEN None
    ELSE IF store.files[store.active[1]] = None THEN None
    ELSE Some(dict_to_draft_state(store.files[store.active[1]][1]))

\* The draft ids list_saved_drafts() reports.
list_saved_drafts(store) ==
    {id \in DOMAIN store.files : store.files[id] # None}

\* delete_draft removing the active link whichever draft is deleted.
delete_draft_AlwaysUnlinks(store, id) ==
    IF id \notin DOMAIN store.files \/ store.files[id] = None
    THEN store
    ELSE [files |-> [store.files EXCEPT ![id] = None],
          active |-> None]

\* The storage directory after delete_draft(draft_id).
delete_draft(store, id) ==
    IF id \notin DOMAIN store.files \/ store.files[id] = None
    THEN store
    ELSE [files |-> [store.files EXCEPT ![id] = None],
          active |-> IF store.active = Some(id) THEN None ELSE store.active]

\* The in-memory draft becomes the given state.
Become(state) ==
    /\ draft_id' = state.draft_id
    /\ league_config' = state.league_config
    /\ current_pick' = state.current_pick
    /\ current_round' = state.current_round
    /\ current_team_id' = state.current_team_id
    /\ draft_order' = state.draft_order
    /\ teams' = state.teams
    /\ all_picks' = state.all_picks
    /\ available_players' = state.available_players
    /\ is_complete' = state.is_complete
    /\ completed_at' = state.completed_at

SaveDraft ==
    /\ storage' = save_draft(storage, DraftStateRecord)
    /\ result' = "saved"
    /\ UNCHANGED <<calls, calc, draftVars, clock, patched>>

\* load_draft(id); the caller goes on with the state it returns, if any.
LoadDraft(id) ==
    /\ IF load_draft(storage, id) = None
       THEN /\ result' = "no_draft"
            /\ UNCHANGED draftVars
       ELSE /\ result' = "loaded"
            /\ Become(load_draft(storage, id)[1])
    /\ UNCHANGED <<calls, storage, calc, clock, patched>>

LoadActiveDraft ==
    /\ IF load_active_draft(storage) = None
       THEN /\ result' = "no_active_draft"
            /\ UNCHANGED draftVars
       ELSE /\ result' = "loaded_active"
            /\ Become(load_active_draft(storage)[1])
    /\ UNCHANGED <<calls, storage, calc, clock, patched>>

DeleteDraft(id) ==
    /\ storage' = delete_draft(storage, id)
    /\ result' = IF id \notin DOMAIN storage.files \/ storage.files[id] = None
                 THEN "delete_false" ELSE "delete_true"
    /\ UNCHANGED <<calls, calc, draftVars, clock, patched>>

ListSavedDraftsCall ==
    /\ result' = "listed"
    /\ UNCHANGED <<calls, storage, calc, draftVars, clock, patched>>

\* A pick record without a slot appended to the log by hand.
AppendLegacyPick ==
    /\ all_picks = <<>>
    /\ all_picks' = Append(all_picks, PickCreate(1, 1, 0, "rb1", NoSlot))
    /\ result' = "appended"
    /\ UNCHANGED <<calls, draft_id, league_config, cursorVars, draft_order, teams,
                   available_players, is_complete, completed_at,
                   storage, calc, clock, patched>>

\* A second draft is created and replaces the one in memory.
CreateSecondDraft ==
    /\ draft_id = FirstDraftId
    /\ Become(create_new(league_config)
                 @@ [draft_id |-> SecondDraftId, league_config |-> league_config])
    /\ result' = "created"
    /\ UNCHANGED <<calls, storage, calc, clock, patched>>

\* An id no draft has.
UnknownDraftId == "dx"

StoreConfigs ==
    { Config(2, "snake", "simulation", SlotsQBOnly),
      Config(2, "snake", "manual_tracker", SlotsQBOnly) }

InitStore ==
    /\ league_config \in StoreConfigs
    /\ FreshDraft

\* One storage directory used by the drafts of one session.
NextStore ==
    \/ \E t \in TeamIds, p \in {"qb1", "qb2", "rb1"} : MakePick(t, p)
    \/ AppendLegacyPick
    \/ CreateSecondDraft
    \/ SaveDraft
    \/ \E id \in DraftIds \cup {UnknownDraftId} : LoadDraft(id)
    \/ LoadActiveDraft
    \/ \E id \in DraftIds \cup {UnknownDraftId} : DeleteDraft(id)
    \/ ListSavedDraftsCall

SpecStore == InitStore /\ [][NextStore]_vars

-----------------------------------------------------------------------------
(* DraftInitializer.create_draft *)

\* The league-size limits of _validate_inputs.
MinLeagueSize == 2

MaxLeagueSize == 20

VALID_SCORING_FORMATS == {"standard", "half_ppr", "full_ppr"}

REQUIRED_ROSTER_POSITIONS == {"QB", "RB", "WR", "TE", "FLEX", "BENCH"}

\* roster_slots arguments: no BENCH key, a K key on top, the empty dict.
SlotsNoBenchKey == [QB |-> 1, RB |-> 1, WR |-> 1, TE |-> 1, FLEX |-> 1]

SlotsWithKicker ==
    [QB |-> 1, RB |-> 0, WR |-> 0, TE |-> 0, FLEX |-> 0, BENCH |-> 0, K |-> 1]

SlotsEmpty == <<>>

\* League sizes around both limits.
LeagueSizeInputs ==
    ((MinLeagueSize - 2)..(MinLeagueSize + 2))
        \cup ((MaxLeagueSize - 1)..(MaxLeagueSize + 2))

\* The arguments of create_draft; team_names is the length of the list.
CreateDraftArgs ==
    UNION { [league_size : {n},
             scoring_format : VALID_SCORING_FORMATS \cup {"ppr"},
             roster_slots : {SlotsChain, SlotsNone, SlotsNoBenchKey,
                             SlotsWithKicker, SlotsEmpty},
             team_names : {k \in {n - 1, n, n + 1} : k >= 0},
             human_team_id : {-1, 0, n - 1, n},
             draft_mode : {"simulation", "manual_tracker", OtherMode}]
            : n \in LeagueSizeInputs }

\* _validate_inputs accepting odd league sizes.
validate_inputs_NoParityCheck(args) ==
    IF args.league_size < MinLeagueSize \/ args.league_size > MaxLeagueSize
    THEN "bad_league_size"
    ELSE IF args.team_names # args.league_size
    THEN "bad_team_names"
    ELSE IF args.human_team_id < 0 \/ args.human_team_id >= args.league_size
    THEN "bad_human_team_id"
    ELSE IF args.scoring_format \notin VALID_SCORING_FORMATS
    THEN "bad_scoring_format"
    ELSE IF ~(REQUIRED_ROSTER_POSITIONS \subseteq DOMAIN args.roster_slots)
    THEN "bad_roster_slots"
    ELSE "ok"

\* "ok", or the kind of the ValueError _validate_inputs raises.
validate_inputs(args) ==
    IF \/ args.league_size < MinLeagueSize
       \/ args.league_size > MaxLeagueSize
       \/ args.league_size % 2 # 0
    THEN "bad_league_size"
    ELSE IF args.team_names # args.league_size
    THEN "bad_team_names"
    ELSE IF args.human_team_id < 0 \/ args.human_team_id >= args.league_size
    THEN "bad_human_team_id"
    ELSE IF args.scoring_format \notin VALID_SCORING_FORMATS
    THEN "bad_scoring_format"
    ELSE IF ~(REQUIRED_ROSTER_POSITIONS \subseteq DOMAIN args.roster_slots)
    THEN "bad_roster_slots"
    ELSE "ok"

\* The tests DraftState.create_new makes itself before it builds the state.
create_new_check(args) ==
    IF args.team_names # args.league_size
    THEN "bad_team_names"
    ELSE IF ~(0 <= args.human_team_id /\ args.human_team_id < args.league_size)
    THEN "bad_human_team_id"
    ELSE "ok"

\* No DraftState object has been built.
NoDraft ==
    /\ draft_id = ""
    /\ current_pick = 0
    /\ current_round = 0
    /\ current_team_id = 0
    /\ draft_order = <<>>
    /\ teams = <<>>
    /\ all_picks = <<>>
    /\ available_players = <<>>
    /\ is_complete = FALSE
    /\ completed_at = None

\* create_draft called with the arguments league_config holds; on success
\* league_config becomes the LeagueConfig built from them.
CreateDraft ==
    /\ result = "none"
    /\ NoDraft
    /\ LET args == league_config
           verdict == IF validate_inputs(args) # "ok"
                      THEN validate_inputs(args) ELSE create_new_check(args)
       IN  IF verdict # "ok"
           THEN /\ result' = verdict
                /\ UNCHANGED <<calls, storage, calc, draftVars, clock, patched>>
           ELSE LET cfg == WithScoring(Config(args.league_size, "snake",
                                              args.draft_mode, args.roster_slots),
                                       args.scoring_format)
                    new == create_new(cfg)
                IN  /\ draft_id' = FirstDraftId
                    /\ league_config' = cfg
                    /\ current_pick' = new.current_pick
                    /\ current_round' = new.current_round
                    /\ draft_order' = new.draft_order
                    /\ current_team_id' = new.current_team_id
                    /\ teams' = new.teams
                    /\ all_picks' = new.all_picks
                    /\ available_players' = new.available_players
                    /\ is_complete' = new.is_complete
                    /\ completed_at' = new.completed_at
                    /\ result' = "created"
                    /\ UNCHANGED <<calls, storage, calc, clock, patched>>

\* Before the draft exists: league_config holds the arguments create_draft
\* is about to be called with.
InitCreate ==
    /\ league_config \in CreateDraftArgs
    /\ NoDraft
    /\ clock = 0
    /\ patched = FALSE
    /\ result = "none"
    /\ storage = EmptyStorage
    /\ calls = NoCalls
    /\ calc = NoCall

NextCreate == CreateDraft

SpecCreate == InitCreate /\ [][NextCreate]_vars

-----------------------------------------------------------------------------
(* Vocabulary of the properties *)

Positions == {"QB", "RB", "WR", "TE", "K", "DST"}

LegalityErrors ==
    {"not_your_turn", "not_found", "already_drafted", "no_position",
     "position_full", "already_complete"}

N == league_config.league_size

R == total_rounds(league_config)

\* Capacity of a slot as the roster_slots map gives it, 0 for a missing key.
Cap(slot) ==
    IF slot \in DOMAIN league_config.roster_slots
    THEN league_config.roster_slots[slot] ELSE 0

\* Number of players team t holds in a slot.
Held(t, slot) == Len(teams[t].roster[slot])

\* Number of times x occurs in the sequence s.
Occurrences(s, x) == Cardinality({i \in DOMAIN s : s[i] = x})

\* The slot lists of team t that hold player p.
SlotsHolding(tm, p) == {s \in SlotNames : p \in Range(tm.roster[s])}

Reverse(s) == [i \in DOMAIN s |-> s[Len(s) + 1 - i]]

\* The team order of round r in a snake draft.
RoundOrder(r) == IF r % 2 = 1 THEN draft_order ELSE Reverse(draft_order)

PositionOf(p) == player_data[p].position

LastPick == all_picks[Len(all_picks)]

-----------------------------------------------------------------------------
(* C1 *)

\* C1: after a successful make_pick(t, p) the player p is absent from
\* available_players, is held in exactly one slot list of team t (once), and
\* is in no slot list of any other team.
C1_PickedPlayerPlaced ==
    [][\A t \in TeamIds, p \in PlayerInputs :
         (result' = "ok" /\ MakePick(t, p)) =>
            /\ p \notin Range(available_players')
            /\ Cardinality(SlotsHolding(teams'[t], p)) = 1
            /\ \A s \in SlotsHolding(teams'[t], p) :
                  Occurrences(teams'[t].roster[s], p) = 1
            /\ \A u \in TeamIds \ {t} : SlotsHolding(teams'[u], p) = {}]_vars

\* A third pick has just succeeded and went to a FLEX or BENCH slot.
C1_Witness ==
    /\ result = "ok"
    /\ Len(all_picks) >= 3
    /\ LastPick.slot \in {"FLEX", "BENCH"}
    /\ LastPick.player_id \in Range(teams[LastPick.team_id].roster[LastPick.slot])

-----------------------------------------------------------------------------
(* C2 *)

\* C2: whenever make_pick finds the player id absent from available_players
\* after validation let the pick through, the call raises "not in available
\* pool" and leaves the pick log, every roster slot list and picks list
\* (contents and order) and the turn cursor as they were before the call.
C2_RollbackRestores ==
    [][\A t \in TeamIds, p \in DOMAIN player_data :
         (/\ ~is_complete
          /\ patched
          /\ p \notin Range(available_players)
          /\ MakePick(t, p)) =>
            /\ result' = "not_in_pool"
            /\ UNCHANGED <<all_picks, teams, cursorVars, available_players>>]_vars

-----------------------------------------------------------------------------
(* C3 *)

\* C3: in a snake draft the team on the clock for pick number p is the entry
\* (p-1) mod N of draft_order in odd rounds and of the reversed draft_order in
\* even rounds, the round being ((p-1) div N) + 1; the team that picks last in a
\* round picks first in the next.
C3_SnakeOrder ==
    league_config.draft_type = "snake" =>
        /\ current_round = ((current_pick - 1) \div N) + 1
        /\ current_team_id = RoundOrder(current_round)[((current_pick - 1) % N) + 1]
        /\ (current_pick > 1 /\ (current_pick - 1) % N = 0) =>
              current_team_id = RoundOrder(current_round - 1)[N]

\* Four teams, second round: team 3 has picked last in round 1 and is on the
\* clock again, and later team 2 follows.
C3_Witness ==
    /\ league_config.draft_type = "snake"
    /\ N = 4
    /\ current_pick = 6
    /\ current_round = 2
    /\ current_team_id = 2
    /\ all_picks[4].team_id = 3
    /\ all_picks[5].team_id = 3

-----------------------------------------------------------------------------
(* C4 *)

\* C4: a make_pick call that fails with a pick-legality error leaves every
\* field of the DraftState unchanged.
C4_RejectedPickChangesNothing ==
    [][\/ UNCHANGED draftVars
       \/ \A t \in TeamIds, p \in PlayerInputs :
             ~(result' \in LegalityErrors /\ MakePick(t, p))]_vars

\* A pick was rejected because position, FLEX and BENCH are all full, after
\* earlier picks had been made.
C4_Witness ==
    /\ result = "position_full"
    /\ all_picks # <<>>

-----------------------------------------------------------------------------
(* C5 *)

-----------------------------------------------------------------------------
(* C6 *)

\* C6: once is_complete is true no make_pick, advance_to_next_pick or
\* check_if_complete call makes it false again, and every make_pick call made
\* from then on raises "Draft is already complete".
C6_CompleteIsFinal ==
    [][is_complete =>
         /\ is_complete'
         /\ \/ result' = "already_complete"
            \/ \A t \in TeamIds, p \in PlayerInputs : ~MakePick(t, p)]_vars

\* A pick was refused on a complete draft.
C6_Witness ==
    /\ is_complete
    /\ result = "already_complete"

-----------------------------------------------------------------------------
(* C7 *)

\* C7: completed_at is null while the draft is not complete, is set (to the
\* time of the call) by the first completion check that observes
\* current_pick > N*R, and keeps that value through every later call.
C7_CompletedAtSetOnce ==
    /\ [](~is_complete => completed_at = None)
    /\ [][/\ completed_at # None => completed_at' = completed_at
          /\ (completed_at = None /\ completed_at' # None) =>
                (current_pick' > N * R /\ completed_at' = Some(clock))
          /\ (CheckIfComplete /\ current_pick > N * R /\ completed_at = None) =>
                completed_at' = Some(clock)]_vars

\* The draft was completed at time 0 and the clock has moved on since.
C7_Witness ==
    /\ is_complete
    /\ completed_at = Some(0)
    /\ clock > 0

-----------------------------------------------------------------------------
(* C8 *)

\* C8: for every team, every player id of picks is in exactly one slot list,
\* once; the slot lists hold nothing that is not in picks; picks has no
\* duplicates; and no slot list is longer than the capacity of its slot.
C8_RosterInvariant ==
    \A t \in TeamIds :
        /\ \A p \in Range(teams[t].picks) :
              /\ Occurrences(teams[t].picks, p) = 1
              /\ Cardinality(SlotsHolding(teams[t], p)) = 1
              /\ \A s \in SlotsHolding(teams[t], p) :
                    Occurrences(teams[t].roster[s], p) = 1
        /\ \A s \in SlotNames :
              /\ Range(teams[t].roster[s]) \subseteq Range(teams[t].picks)
              /\ Held(t, s) <= Cap(s)

\* In manual_tracker mode one team has filled every slot and was refused a
\* further player.
C8_Witness ==
    /\ league_config.draft_mode = "manual_tracker"
    /\ result = "position_full"
    /\ \E t \in TeamIds :
          /\ Len(teams[t].picks) = R
          /\ \A s \in SlotNames : Held(t, s) = Cap(s)

-----------------------------------------------------------------------------
(* C9 *)

SlotRank(slot) == IF slot = "FLEX" THEN 1 ELSE IF slot = "BENCH" THEN 2 ELSE 0

\* C9: determine_roster_slot returns the position while the position slot
\* has room, else FLEX for RB, WR and TE while FLEX has room, else BENCH
\* whatever the bench holds; so in the pick log the picks of one position by
\* one team go position -> FLEX -> BENCH, and only RB, WR and TE enter FLEX.
C9_SlotPriority ==
    /\ \A t \in TeamIds, pos \in Positions :
          LET slot == determine_roster_slot(teams[t], pos)
          IN  /\ Held(t, pos) < Cap(pos) => slot = pos
              /\ (/\ Held(t, pos) >= Cap(pos)
                  /\ pos \in {"RB", "WR", "TE"}
                  /\ Held(t, "FLEX") < Cap("FLEX")) => slot = "FLEX"
              /\ (/\ Held(t, pos) >= Cap(pos)
                  /\ (pos \notin {"RB", "WR", "TE"} \/ Held(t, "FLEX") >= Cap("FLEX")))
                    => slot = "BENCH"
    /\ \A i \in DOMAIN all_picks :
          /\ all_picks[i].slot \in {PositionOf(all_picks[i].player_id), "FLEX", "BENCH"}
          /\ all_picks[i].slot = "FLEX" =>
                PositionOf(all_picks[i].player_id) \in {"RB", "WR", "TE"}
    /\ \A i, j \in DOMAIN all_picks :
          (/\ i < j
           /\ all_picks[i].team_id = all_picks[j].team_id
           /\ PositionOf(all_picks[i].player_id) = PositionOf(all_picks[j].player_id))
            => SlotRank(all_picks[i].slot) <= SlotRank(all_picks[j].slot)

\* One team took its two RBs into RB and then FLEX and a WR onto the bench,
\* and with the bench full a kicker would still be sent to BENCH.
C9_Witness ==
    \E t \in TeamIds :
        /\ teams[t].roster["RB"] = <<"rb1">>
        /\ teams[t].roster["FLEX"] = <<"rb2">>
        /\ teams[t].roster["BENCH"] = <<"wr1">>
        /\ Held(t, "BENCH") = Cap("BENCH")
        /\ determine_roster_slot(teams[t], "K") = "BENCH"

-----------------------------------------------------------------------------
(* C10 *)

\* The claim's acceptance condition for position pos and team t.
HasRoomFor(t, pos) ==
    \/ Held(t, pos) < Cap(pos)
    \/ pos \in {"RB", "WR", "TE"} /\ Held(t, "FLEX") < Cap("FLEX")
    \/ Held(t, "BENCH") < Cap("BENCH")

\* C10: the position-limit rule accepts position P for a team exactly when
\* count(P) < capacity(P), or P is RB/WR/TE and FLEX has room, or BENCH has
\* room, a position missing from the capacity map counting as capacity 0; a
\* pick that passes the earlier checks is rejected as "Cannot draft another P"
\* exactly when the rule does not accept.
C10_PositionLimitRule ==
    /\ \A t \in TeamIds, pos \in Positions :
          validate_position_limit(teams[t], pos) <=> HasRoomFor(t, pos)
    /\ \A t \in TeamIds, p \in Range(available_players) :
          (/\ PositionOf(p) # ""
           /\ (league_config.draft_mode = "simulation" => t = current_team_id))
            => validate_pick(t, p) =
                  IF HasRoomFor(t, PositionOf(p)) THEN "ok" ELSE "position_full"

\* A kicker, whose position is no key of the capacity map, was taken onto the
\* bench, and later a pick was rejected for lack of room.
C10_Witness ==
    /\ "K" \notin DOMAIN league_config.roster_slots
    /\ \E t \in TeamIds : teams[t].roster["BENCH"] = <<"k1">>
    /\ result = "position_full"

-----------------------------------------------------------------------------
(* C11 *)

\* C11: validate_pick never reports a turn error when draft_mode is
\* manual_tracker; for every other draft_mode value a pick by a team other
\* than current_team_id is rejected with the not-your-turn error.
C11_TurnCheckUnlessManual ==
    \A t \in TeamIds, p \in PlayerInputs :
        /\ league_config.draft_mode = "manual_tracker" =>
              validate_pick(t, p) # "not_your_turn"
        /\ (league_config.draft_mode # "manual_tracker" /\ t # current_team_id) =>
              validate_pick(t, p) = "not_your_turn"

-----------------------------------------------------------------------------
(* C12 *)

\* The first failing check after the turn check, "ok" when none fails.
FirstFailingAfterTurn(t, p) ==
    IF p \notin DOMAIN player_data THEN "not_found"
    ELSE IF p \notin Range(available_players) THEN "already_drafted"
    ELSE IF PositionOf(p) = "" THEN "no_position"
    ELSE IF ~HasRoomFor(t, PositionOf(p)) THEN "position_full"
    ELSE "ok"

\* C12: validate_pick reports the turn error whenever the turn check fails,
\* whatever else is wrong with the pick, and otherwise the error of the first
\* failing check in the order exists -> available -> has a position ->
\* position limit; it returns (True, None) exactly when no check fails.
C12_CheckOrder ==
    \A t \in TeamIds, p \in PlayerInputs :
        /\ validate_pick(t, p) \in {"not_your_turn", FirstFailingAfterTurn(t, p)}
        /\ (league_config.draft_mode = "simulation" /\ t # current_team_id) =>
              validate_pick(t, p) = "not_your_turn"
        /\ (league_config.draft_mode = "manual_tracker" \/ t = current_team_id) =>
              validate_pick(t, p) = FirstFailingAfterTurn(t, p)

\* The team on the clock has no room for a quarterback and was refused a
\* quarterback that is already drafted, with "already been drafted"; another
\* team asking for an unknown player gets the turn error.
C12_Witness ==
    /\ league_config.draft_mode = "simulation"
    /\ result = "already_drafted"
    /\ ~HasRoomFor(current_team_id, "QB")
    /\ "qb1" \notin Range(available_players)
    /\ validate_pick(current_team_id, "qb1") = "already_drafted"
    /\ \E u \in TeamIds \ {current_team_id} :
          validate_pick(u, UnknownPlayer) = "not_your_turn"

-----------------------------------------------------------------------------
(* C13 *)

\* The pick log reads: qb1 by team 0, then qb2 by team 1, and nothing else.
Qb1ThenQb2 ==
    /\ league_config.roster_slots = SlotsQBOnly
    /\ Len(all_picks) = 2
    /\ all_picks[1].team_id = 0 /\ all_picks[1].player_id = "qb1"
    /\ all_picks[2].team_id = 1 /\ all_picks[2].player_id = "qb2"

\* C13: in a 4-team league with roster slots {QB:1, every other slot 0}, the
\* picks qb1 by team 0 and then qb2 by team 1 complete the draft (is_complete
\* true, completed_at non-null) after exactly 2 picks.
C13_FourTeamsCompleteAfterTwo ==
    (N = 4 /\ Qb1ThenQb2) => (is_complete /\ completed_at # None)

\* C13 (amended): in a 2-team league with roster slots {QB:1, every other
\* slot 0} the draft is in progress before the second pick, the picks qb1 by
\* team 0 and qb2 by team 1 complete it (is_complete true, completed_at
\* non-null), and every make_pick attempted afterwards raises "Draft is
\* already complete".
C13_TwoTeamsCompleteAfterTwo ==
    /\ []((N = 2 /\ league_config.roster_slots = SlotsQBOnly /\ Len(all_picks) < 2)
            => ~is_complete)
    /\ []((N = 2 /\ Qb1ThenQb2) => (is_complete /\ completed_at # None))
    /\ [][(N = 2 /\ Qb1ThenQb2) =>
             \/ result' = "already_complete"
             \/ \A t \in TeamIds, p \in PlayerInputs : ~MakePick(t, p)]_vars

\* The two picks of the 2-team scenario are in and a third was refused.
C13_Witness ==
    /\ N = 2
    /\ Qb1ThenQb2
    /\ is_complete
    /\ result = "already_complete"

-----------------------------------------------------------------------------
(* C14 *)

\* C14: each successful make_pick(t, p) appends exactly one Pick whose
\* pick_number and round are current_pick and current_round before the call,
\* whose team_id and player_id are t and p and whose slot is the slot list
\* the player entered; the k-th entry of the log has pick_number k; and no
\* call, successful or rejected, changes or removes an existing entry.
C14_PickLogAppendOnly ==
    /\ [](\A k \in DOMAIN all_picks : all_picks[k].pick_number = k)
    /\ [][/\ Len(all_picks') >= Len(all_picks)
          /\ SubSeq(all_picks', 1, Len(all_picks)) = all_picks
          /\ \A t \in TeamIds, p \in PlayerInputs :
                (result' = "ok" /\ MakePick(t, p)) =>
                   /\ Len(all_picks') = Len(all_picks) + 1
                   /\ LET rec == all_picks'[Len(all_picks')]
                      IN  /\ rec.pick_number = current_pick
                          /\ rec.round = current_round
                          /\ rec.team_id = t
                          /\ rec.player_id = p
                          /\ p \in Range(teams'[t].roster[rec.slot])
                          /\ p \notin Range(teams[t].roster[rec.slot])
          /\ result' # "ok" => all_picks' = all_picks]_vars

\* In manual_tracker mode a team that was not on the clock made the third
\* pick, in round 2, and a later call was rejected.
C14_Witness ==
    /\ league_config.draft_mode = "manual_tracker"
    /\ Len(all_picks) = 3
    /\ all_picks[3].round = 2
    /\ all_picks[3].team_id = 0
    /\ result \in LegalityErrors

-----------------------------------------------------------------------------
(* C15 *)

\* C15: the error make_pick raises after rolling back ("not in available
\* pool") is of another kind than every pick-legality error make_pick raises.
C15_PoolErrorDistinctKind ==
    result = "not_in_pool" =>
        \A k \in LegalityErrors : ErrorClass(result) # ErrorClass(k)

-----------------------------------------------------------------------------
(* C16 *)

\* C16: with the unmodified rules no sequence of make_pick calls raises "not
\* in available pool": a pick that passes validate_pick has its player id in
\* available_players.
C16_RollbackUnreachable ==
    /\ result # "not_in_pool"
    /\ ~patched
    /\ \A t \in TeamIds, p \in PlayerInputs :
          validate_pick(t, p) = "ok" => p \in Range(available_players)

\* A pick of a player drafted earlier was refused by validate_pick, and a
\* pick of an available player would pass.
C16_Witness ==
    /\ result = "already_drafted"
    /\ all_picks # <<>>
    /\ \E t \in TeamIds, p \in PlayerInputs : validate_pick(t, p) = "ok"

-----------------------------------------------------------------------------
(* C17 *)

\* C17: get_draft_summary never raises; while is_complete is false it
\* returns the {"error": ...} sentinel, and once is_complete is true a summary
\* with one entry per team and total_picks = len(all_picks); the call leaves
\* the DraftState unchanged.
C17_SummaryOrSentinel ==
    /\ [](~is_complete => DOMAIN get_draft_summary = {"error"})
    /\ [](is_complete =>
            /\ "error" \notin DOMAIN get_draft_summary
            /\ Len(get_draft_summary.teams) = N
            /\ \A i \in 1..N : get_draft_summary.teams[i].team_id = i - 1
            /\ get_draft_summary.total_picks = Len(all_picks))
    /\ [][GetDraftSummary =>
             /\ UNCHANGED draftVars
             /\ result' = IF is_complete THEN "summary" ELSE "not_complete"]_vars

\* The summary of a complete four-pick draft has been returned.
C17_Witness ==
    /\ is_complete
    /\ result = "summary"
    /\ get_draft_summary.total_picks = 4
    /\ Len(get_draft_summary.teams) = 2

-----------------------------------------------------------------------------
(* C18 *)

\* projections[scoring_format] of player p, a missing value counting as 0.
PointsOrZero(p) ==
    IF p \in DOMAIN projections
       /\ league_config.scoring_format \in DOMAIN projections[p]
    THEN projections[p][league_config.scoring_format]
    ELSE 0

\* Sum of PointsOrZero over the picks of team t in the first k log entries
\* that did not go to the slot named BENCH.
RECURSIVE StartersSum(_, _)
StartersSum(t, k) ==
    IF k = 0 THEN 0
    ELSE StartersSum(t, k - 1)
           + (IF all_picks[k].team_id = t /\ all_picks[k].slot # "BENCH"
              THEN PointsOrZero(all_picks[k].player_id) ELSE 0)

\* C18: in the end-of-draft summary a team's projected_points is the sum of
\* projections[scoring_format] (missing value counted as 0) over the players
\* in every roster slot except BENCH.
C18_PointsAreStartersSum ==
    is_complete =>
        \A i \in 1..N :
            get_draft_summary.teams[i].projected_points
               = StartersSum(i - 1, Len(all_picks))

\* C18 (amended): a team's projected_points is that sum rounded to one
\* decimal place; BENCH players never contribute, FLEX players do.
C18_PointsAreRoundedStartersSum ==
    is_complete =>
        \A i \in 1..N :
            get_draft_summary.teams[i].projected_points
               = Round1(StartersSum(i - 1, Len(all_picks)))

\* A complete draft in which a team starts rb1 (80.02 points) in FLEX and
\* keeps qb1 (110.0 points) on the bench: its projected_points is 80.0.
C18_Witness ==
    /\ is_complete
    /\ \E t \in TeamIds :
          /\ teams[t].roster["FLEX"] = <<"rb1">>
          /\ teams[t].roster["BENCH"] = <<"qb1">>
          /\ get_draft_summary.teams[t + 1].projected_points = 8000

-----------------------------------------------------------------------------
(* C20 *)

\* A call of one of the read-only operations.
ReadOnlyCall ==
    \/ \E t \in TeamIds, p \in PlayerInputs : ValidatePickCall(t, p)
    \/ IsDraftCompleteCall
    \/ \E t \in TeamIds, pos \in SlotNames : DetermineRosterSlotCall(t, pos)
    \/ \E pos \in SlotNames : GetAvailablePlayersCall(pos)
    \/ \E t \in TeamInputs : GetTeamRosterCall(t)
    \/ \E t \in TeamInputs : CalculateFromDraftStateCall(t)

-----------------------------------------------------------------------------
(* C19 *)

\* The configuration faults the claim lists.
ViolatesCreationRule(a) ==
    \/ a.league_size % 2 = 1
    \/ a.league_size < 2
    \/ a.league_size > 20
    \/ a.team_names # a.league_size
    \/ a.human_team_id < 0
    \/ a.human_team_id >= a.league_size
    \/ a.scoring_format \notin {"standard", "half_ppr", "full_ppr"}
    \/ \E pos \in {"QB", "RB", "WR", "TE", "FLEX", "BENCH"} :
          pos \notin DOMAIN a.roster_slots

-----------------------------------------------------------------------------
(* C28 *)

\* The ids held in some slot list of some team.
Rostered ==
    UNION {Range(teams[t].roster[s]) : t \in TeamIds, s \in SlotNames}

\* C28: available_players has no duplicates, holds exactly the catalog ids
\* that are in no team's roster (so its length plus len(all_picks) is the
\* catalog size) and lists them in catalog insertion order;
\* get_available_players(position) returns the entries of that position in
\* the same relative order.
C28_AvailableIsCatalogMinusDrafted ==
    LET free == SelectSeq(CatalogOrder, LAMBDA id : id \notin Rostered)
    IN  /\ available_players = free
        /\ \A i, j \in DOMAIN available_players :
              i # j => available_players[i] # available_players[j]
        /\ Len(available_players) + Len(all_picks) = Len(CatalogOrder)
        /\ get_available_players(None) = available_players
        /\ \A pos \in Positions :
              get_available_players(Some(pos))
                 = SelectSeq(free, LAMBDA id : PositionOf(id) = pos)

\* qb2, rb1 and wr1 are drafted out of the middle of the catalog; the other
\* four ids keep their catalog order and two running backs' worth of
\* filtering leaves rb2 alone.
C28_Witness ==
    /\ available_players = <<"qb1", "rb2", "k1", "np1", "te1", "dst1">>
    /\ get_available_players(Some("RB")) = <<"rb2">>
    /\ Len(all_picks) = 3

-----------------------------------------------------------------------------
(* C29 *)

\* C29: once is_complete is true, advance_to_next_pick leaves current_pick,
\* current_round and current_team_id as they are, however often it is called.
C29_AdvanceNoOpWhenComplete ==
    [][(is_complete /\ AdvanceToNextPick) => UNCHANGED cursorVars]_vars

\* Direct advance_to_next_pick calls alone took the cursor to N*R + 1, the
\* completion check has run, and advance_to_next_pick can be called again.
C29_Witness ==
    /\ is_complete
    /\ all_picks = <<>>
    /\ current_pick = N * R + 1
    /\ ENABLED AdvanceToNextPick

-----------------------------------------------------------------------------
(* C30 *)

\* C30: with draft_type linear the team on the clock for pick number p is
\* draft_order[(p-1) mod N] in every round, with no reversal in even rounds.
C30_LinearOrder ==
    league_config.draft_type = "linear" =>
        /\ current_team_id = draft_order[((current_pick - 1) % N) + 1]
        /\ \A k \in DOMAIN all_picks :
              all_picks[k].team_id = draft_order[((k - 1) % N) + 1]

\* A linear draft in its second round: team 0 opened round 2 and team 1 is on
\* the clock for pick 4.
C30_Witness ==
    /\ league_config.draft_type = "linear"
    /\ current_round = 2
    /\ current_pick = 4
    /\ current_team_id = 1
    /\ all_picks[2].team_id = 1
    /\ all_picks[3].team_id = 0

-----------------------------------------------------------------------------
(* C21 *)

\* The catalog baseline of player p for scoring format f, 0 when absent.
CatalogBase(p, f) ==
    IF f \in DOMAIN baseline_vor[p] THEN baseline_vor[p][f] ELSE 0

One == [num |-> 1, den |-> 1]

\* The fraction a is negative, zero.
RatNeg(a) == a.num < 0
RatZero(a) == a.num = 0

\* The product of an integer and two fractions equals the fraction c.
IsProduct(c, base, a, b) ==
    c.num * a.den * b.den = base * a.num * b.num * c.den

\* C21: every player of the available list is priced; its dynamic_vor is
\* base_vor * scarcity_multiplier * need_multiplier with base_vor the catalog
\* baseline for the calculator's scoring format (0 when absent); both
\* multipliers are at least 1, so a negative base gives a negative dynamic
\* VOR not above the base, and a zero base gives zero.
C21_DynamicVorIsProduct ==
    calc.called =>
        /\ DOMAIN calc.results = Range(calc.available_players)
        /\ \A p \in DOMAIN calc.results :
              LET r == calc.results[p]
              IN  /\ r.base_vor = CatalogBase(p, calc.scoring_format)
                  /\ IsProduct(r.dynamic_vor, r.base_vor,
                               r.scarcity_multiplier, r.need_multiplier)
                  /\ RatLeq(One, r.scarcity_multiplier)
                  /\ RatLeq(One, r.need_multiplier)
                  /\ r.base_vor < 0 =>
                        /\ RatNeg(r.dynamic_vor)
                        /\ RatLeq(r.dynamic_vor, [num |-> r.base_vor, den |-> 1])
                  /\ r.base_vor = 0 => RatZero(r.dynamic_vor)

\* A below-replacement player priced with both multipliers above 1: the
\* dynamic VOR is strictly below the base.
C21_Witness ==
    /\ calc.called
    /\ "rb2" \in DOMAIN calc.results
    /\ calc.results["rb2"].base_vor < 0
    /\ ~RatLeq(calc.results["rb2"].scarcity_multiplier, One)
    /\ ~RatLeq(calc.results["rb2"].need_multiplier, One)
    /\ ~RatLeq([num |-> calc.results["rb2"].base_vor, den |-> 1],
               calc.results["rb2"].dynamic_vor)

-----------------------------------------------------------------------------
(* C22 *)

\* The league-wide startable count and the scarcity weight (in tenths) of a
\* position; a position without an entry has 1 and 1.0.
Baseline(pos) ==
    IF pos \in DOMAIN VOR_BASELINE_COUNTS THEN VOR_BASELINE_COUNTS[pos] ELSE 1
WeightTenths(pos) ==
    IF pos \in DOMAIN POSITION_SCARCITY_WEIGHTS
    THEN POSITION_SCARCITY_WEIGHTS[pos] ELSE 10

\* The drafted count the call was given for a position, 0 without an entry.
DraftedCount(pos) ==
    IF pos \in DOMAIN calc.drafted_positions
    THEN calc.drafted_positions[pos] ELSE 0

\* The fraction a equals n/d.
RatIs(a, n, d) == a.num * d = n * a.den

\* C22: the scarcity multiplier of a position is
\* 1 + min(drafted / baseline, 1) * weight: 1 at drafted = 0 and for a
\* position without a drafted count, never below 1, 1 + weight from
\* drafted = baseline on, and not smaller than at one drafted player fewer nor
\* larger than at one more.
C22_ScarcityFormula ==
    calc.called =>
        \A p \in DOMAIN calc.results :
            LET pos == calc.results[p].position
                s == calc.results[p].scarcity_multiplier
                d == DraftedCount(pos)
                b == Baseline(pos)
                w == WeightTenths(pos)
            IN  /\ IF d >= b THEN RatIs(s, 10 + w, 10)
                             ELSE RatIs(s, 10 * b + d * w, 10 * b)
                /\ d = 0 => s = One
                /\ RatLeq(One, s)
                /\ RatLeq(s, calculate_scarcity_multiplier(pos, d + 1))
                /\ d > 0 => RatLeq(calculate_scarcity_multiplier(pos, d - 1), s)

\* 20 quarterbacks drafted against a baseline of 12: the multiplier is 2.2.
C22_Witness ==
    /\ calc.called
    /\ "qb1" \in DOMAIN calc.results
    /\ DraftedCount("QB") = 20
    /\ RatIs(calc.results["qb1"].scarcity_multiplier, 22, 10)

-----------------------------------------------------------------------------
(* C23 *)

\* Players the team holds that count for a position, and the capacity they
\* count against: the position's slot, and FLEX for RB, WR and TE.
Filled(pos) ==
    (IF pos \in DOMAIN calc.team_roster THEN Len(calc.team_roster[pos]) ELSE 0)
    + (IF pos \in {"RB", "WR", "TE"} /\ "FLEX" \in DOMAIN calc.team_roster
       THEN Len(calc.team_roster["FLEX"]) ELSE 0)
Total(pos) ==
    (IF pos \in DOMAIN calc.roster_slots THEN calc.roster_slots[pos] ELSE 0)
    + (IF pos \in {"RB", "WR", "TE"} /\ "FLEX" \in DOMAIN calc.roster_slots
       THEN calc.roster_slots["FLEX"] ELSE 0)

\* C23: the need multiplier of a position is
\* 1 + (max(total - filled, 0) / total) * 0.5 and 1 when total is 0; it lies
\* in [1, 1.5], is 1.5 for an empty roster with total > 0, 1 when every
\* attributable slot is filled, and does not grow when one more player is put
\* in the position slot or in FLEX.
C23_NeedFormula ==
    calc.called =>
        \A p \in DOMAIN calc.results :
            LET pos == calc.results[p].position
                n == calc.results[p].need_multiplier
                f == Filled(pos)
                t == Total(pos)
            IN  /\ IF t = 0 THEN n = One
                   ELSE IF f >= t THEN n = One
                   ELSE RatIs(n, 2 * t + (t - f), 2 * t)
                /\ RatLeq(One, n) /\ RatLeq(n, [num |-> 3, den |-> 2])
                /\ (f = 0 /\ t > 0) => RatIs(n, 3, 2)
                /\ \A s \in {pos, "FLEX"} \cap DOMAIN calc.team_roster :
                      RatLeq(calculate_need_multiplier(
                                 pos,
                                 [calc.team_roster EXCEPT ![s] = Append(@, "x")],
                                 calc.roster_slots),
                             n)

\* One of two RB slots filled with one FLEX slot open: need is 1 + (2/3) * 0.5,
\* while the quarterback need ignores the FLEX slot.
C23_Witness ==
    /\ calc.called
    /\ {"rb1", "qb1"} \subseteq DOMAIN calc.results
    /\ Filled("RB") = 1 /\ Total("RB") = 3
    /\ RatIs(calc.results["rb1"].need_multiplier, 4, 3)
    /\ Len(calc.team_roster["FLEX"]) = 0
    /\ RatIs(calc.results["qb1"].need_multiplier, 3, 2)

-----------------------------------------------------------------------------
(* C24 *)

\* The index of player p in the available list of the call.
IndexIn(p) == CHOOSE i \in DOMAIN calc.available_players :
                  calc.available_players[i] = p

\* The available players at the position of p that outrank p: a higher base
\* VOR, or the same base VOR and an earlier place in the available list.
Outranking(p) ==
    {q \in Range(calc.available_players) :
        /\ player_data[q].position = player_data[p].position
        /\ \/ CatalogBase(q, calc.scoring_format) > CatalogBase(p, calc.scoring_format)
           \/ /\ CatalogBase(q, calc.scoring_format) = CatalogBase(p, calc.scoring_format)
              /\ IndexIn(q) < IndexIn(p)}

\* C24: within each position the ranks of the available players are exactly
\* 1..k, in descending base VOR, ties in the order of the available list; the
\* rank is a function of the base VORs and the list order alone.
C24_PositionRanks ==
    calc.called =>
        /\ \A p \in DOMAIN calc.results :
              calc.results[p].position_rank = 1 + Cardinality(Outranking(p))
        /\ \A p \in DOMAIN calc.results :
              LET same == {q \in DOMAIN calc.results :
                              calc.results[q].position = calc.results[p].position}
              IN  {calc.results[q].position_rank : q \in same}
                     = 1..Cardinality(same)

\* qb2 listed ahead of qb1 with the same half-PPR base VOR: qb2 is ranked 1
\* and qb1 2, against the catalog order of the two.
C24_Witness ==
    /\ calc.called
    /\ calc.scoring_format = "half_ppr"
    /\ calc.available_players = <<"qb2", "rb2", "qb1", "rb1", "wr1">>
    /\ calc.results["qb2"].position_rank = 1
    /\ calc.results["qb1"].position_rank = 2
    /\ calc.results["rb2"].position_rank = 2

-----------------------------------------------------------------------------
(* C25 *)

\* Drafted players, over the whole pick log, whose catalog position is pos.
DraftedAt(pos) ==
    Cardinality({i \in DOMAIN all_picks : PositionOf(all_picks[i].player_id) = pos})

\* What a calculate_from_draft_state call returned agrees with the draft: the
\* count of every position is the number of drafted players of that catalog
\* position, the counts sum to the log's length, and the priced players are
\* the available ones, none of them drafted.
CountsMatchDraft(call) ==
    /\ \A pos \in Positions :
          (IF pos \in DOMAIN call.drafted_positions
           THEN call.drafted_positions[pos] ELSE 0) = DraftedAt(pos)
    /\ SumOver(call.drafted_positions, DOMAIN call.drafted_positions)
          = Len(all_picks)
    /\ DOMAIN call.results = Range(available_players)
    /\ \A i \in DOMAIN all_picks : all_picks[i].player_id \notin DOMAIN call.results

\* C25: in every state reached by make_pick calls, calculate_from_draft_state
\* counts for every position the drafted players of that catalog position
\* whatever slot holds them, so the counts sum to len(all_picks), and it
\* prices exactly the available players.
C25_CountsByCatalogPosition ==
    [][calc' # calc => CountsMatchDraft(calc)']_vars

\* The calculator was called on the current draft with a quarterback on a
\* bench and a FLEX slot taken: both are counted under their own position.
C25_Witness ==
    /\ calc.called
    /\ calc.available_players = available_players
    /\ all_picks # <<>>
    /\ \E t \in TeamIds :
          /\ "qb1" \in Range(teams[t].roster["BENCH"])
          /\ teams[t].roster["FLEX"] # <<>>
          /\ teams[t].roster["QB"] = <<>> /\ teams[t].roster["RB"] = <<>>
    /\ "QB" \in DOMAIN calc.drafted_positions
    /\ calc.drafted_positions["QB"] >= 1
    /\ CountsMatchDraft(calc)

-----------------------------------------------------------------------------
(* C26 *)

-----------------------------------------------------------------------------
(* C27 *)

\* C27: with nothing saved load_active_draft returns None; after a save it
\* returns the draft just saved; delete_draft of a saved id returns True,
\* after which load_draft(id) is None and id is not listed, the other files
\* are as before, and load_active_draft is None if id was the active draft
\* and unchanged otherwise; delete_draft of an id without a file returns
\* False and changes nothing; no other call touches the directory.
C27_ActivePointer ==
    /\ load_active_draft(storage) = None
    /\ [][/\ result' = "saved" =>
               load_active_draft(storage') = Some(DraftStateRecord)
          /\ result' = "delete_true" =>
               \E id \in list_saved_drafts(storage) :
                  /\ load_draft(storage', id) = None
                  /\ id \notin list_saved_drafts(storage')
                  /\ \A other \in DraftIds \ {id} :
                        load_draft(storage', other) = load_draft(storage, other)
                  /\ IF storage.active = Some(id)
                     THEN load_active_draft(storage') = None
                     ELSE /\ storage'.active = storage.active
                          /\ load_active_draft(storage')
                                = load_active_draft(storage)
          /\ result' = "delete_false" => storage' = storage
          /\ result' \notin {"saved", "delete_true", "delete_false"} =>
               storage' = storage
         ]_vars

\* The second draft was saved before the first and has just been deleted:
\* the first draft is still the active one.
C27_Witness ==
    /\ result = "delete_true"
    /\ storage.files[SecondDraftId] = None
    /\ storage.files[FirstDraftId] # None
    /\ storage.active = Some(FirstDraftId)
    /\ load_active_draft(storage) # None
    /\ load_draft(storage, SecondDraftId) = None
    /\ list_saved_drafts(storage) = {FirstDraftId}

-----------------------------------------------------------------------------
(* C31 *)

\* The round of pick number k and the team the snake order gives it.
RoundOfPick(k) == ((k - 1) \div N) + 1
SnakeTeam(k) == RoundOrder(RoundOfPick(k))[((k - 1) % N) + 1]

\* The k-th log entry belongs to the snake-order team of pick k and carries
\* the round of pick k, for every k.
LogFollowsSnake ==
    \A k \in DOMAIN all_picks :
        /\ all_picks[k].team_id = SnakeTeam(k)
        /\ all_picks[k].round = RoundOfPick(k)

\* C31 as stated: in simulation mode the k-th entry of all_picks has the
\* snake-order team of pick k (draft_order forward in odd rounds, reversed in
\* even rounds) and the round ((k-1) div N) + 1, whatever the draft type.
C31_SimulationLogFollowsSnake ==
    league_config.draft_mode = "simulation" => LogFollowsSnake

\* C31: in simulation mode of a snake draft the k-th entry of all_picks has
\* the snake-order team of pick k and the round ((k-1) div N) + 1; no team
\* gets a pick logged out of turn.
C31_SnakeSimulationLogFollowsSnake ==
    (league_config.draft_mode = "simulation" /\ league_config.draft_type = "snake")
        => LogFollowsSnake

\* Four teams, snake, simulation: the fifth pick is logged in round 2 for
\* team 3, which also made the fourth, and team 2 is next.
C31_Witness ==
    /\ league_config.draft_mode = "simulation"
    /\ league_config.draft_type = "snake"
    /\ N = 4
    /\ Len(all_picks) = 5
    /\ all_picks[4].team_id = 3
    /\ all_picks[5].team_id = 3 /\ all_picks[5].round = 2
    /\ current_team_id = 2

-----------------------------------------------------------------------------
(* C32 *)

\* The members of draft_order.
OrderMembers == {draft_order[i] : i \in DOMAIN draft_order}

\* C32: in every state reached from create_new by make_pick calls,
\* current_pick = len(all_picks) + 1,
\* current_round = ((current_pick - 1) div N) + 1,
\* 1 <= current_pick <= N*R + 1, current_team_id is a member of draft_order,
\* and current_round <= R as long as the draft is not complete.
C32_CursorInvariants ==
    /\ current_pick = Len(all_picks) + 1
    /\ current_round = ((current_pick - 1) \div N) + 1
    /\ 1 <= current_pick /\ current_pick <= N * R + 1
    /\ current_team_id \in OrderMembers
    /\ ~is_complete => current_round <= R

-----------------------------------------------------------------------------
(* C33 *)

\* C33: in every state reached from create_new by make_pick calls in a league
\* with at least one round, DraftRules.is_draft_complete() is true if and only
\* if DraftState.is_complete is true.
C33_CompletionPredicatesAgree ==
    R >= 1 => (is_draft_complete <=> is_complete)

\* A two-round draft has just logged its last pick: both predicates are true.
C33_Witness ==
    /\ R >= 2
    /\ result = "ok"
    /\ Len(all_picks) = N * R
    /\ is_draft_complete
    /\ is_complete

-----------------------------------------------------------------------------
(* C34 *)

\* The slot the Roster Validator names for team t and a position has room.
NamedSlotHasRoom(t, pos) ==
    LET slot == determine_roster_slot(teams[t], pos)
    IN  Len(teams[t].roster[slot]) < Cap(slot)

\* C34: in every reachable state, for every team and position, the
\* position-limit check of validate_pick accepts if and only if the slot
\* determine_roster_slot returns holds fewer players than its capacity; a
\* successful make_pick puts the player in a slot that had room, and no slot
\* ever holds more than its capacity.
C34_RulesAndValidatorAgree ==
    /\ [](\A t \in TeamIds, pos \in Positions :
             validate_position_limit(teams[t], pos) <=> NamedSlotHasRoom(t, pos))
    /\ [](\A t \in TeamIds, slot \in SlotNames : Held(t, slot) <= Cap(slot))
    /\ [][result' = "ok" /\ all_picks' # all_picks =>
            Held(LastPick'.team_id, LastPick'.slot) < Cap(LastPick'.slot)]_vars

\* A team with its QB, RB and BENCH slots full and FLEX open has just picked:
\* a further QB is refused (BENCH is named and is full), a further RB is
\* accepted and goes to FLEX.
C34_Witness ==
    /\ result = "ok"
    /\ \E t \in TeamIds :
          /\ Cap("BENCH") >= 1 /\ Held(t, "BENCH") = Cap("BENCH")
          /\ Held(t, "FLEX") < Cap("FLEX")
          /\ ~validate_position_limit(teams[t], "QB")
          /\ determine_roster_slot(teams[t], "QB") = "BENCH"
          /\ validate_position_limit(teams[t], "RB")
          /\ determine_roster_slot(teams[t], "RB") = "FLEX"

-----------------------------------------------------------------------------
(* C35 *)

\* The slots validate_final_roster reports an error for.
ReportedSlots(t) == {e[1] : e \in validate_final_roster(teams[t]).errors}

\* C35: validate_final_roster reports an error for a slot exactly when the
\* team's count in it differs from the required count, and once a draft is
\* complete every team holds exactly R players and validate_final_roster
\* returns (True, []) for every team.
C35_CompleteRostersAreValid ==
    /\ \A t \in TeamIds :
          ReportedSlots(t)
             = {slot \in DOMAIN league_config.roster_slots : Held(t, slot) # Cap(slot)}
    /\ is_complete =>
          \A t \in TeamIds :
             /\ Len(teams[t].picks) = R
             /\ validate_final_roster(teams[t]) = [ok |-> TRUE, errors |-> {}]
             /\ \A slot \in DOMAIN league_config.roster_slots :
                   Held(t, slot) = Cap(slot)

\* A two-round manual-tracker draft is complete and team 1 made the first
\* pick: both rosters are filled exactly.
C35_Witness ==
    /\ is_complete
    /\ league_config.draft_mode = "manual_tracker"
    /\ R = 2
    /\ all_picks[1].team_id = 1
    /\ \A t \in TeamIds : validate_final_roster(teams[t]).ok

-----------------------------------------------------------------------------
(* C36 *)

\* Number of players team t holds.
PlayersOf(t) == Len(teams[t].picks)

\* C36: in simulation mode, while the draft is not complete the team on the
\* clock holds fewer than R players and has a slot below capacity, and
\* whenever current_pick is the first pick of a round r every team holds
\* exactly r - 1 players.
C36_TeamOnClockHasRoom ==
    league_config.draft_mode = "simulation" =>
        /\ ~is_complete =>
              /\ PlayersOf(current_team_id) < R
              /\ \E slot \in DOMAIN league_config.roster_slots :
                    Held(current_team_id, slot) < Cap(slot)
        /\ (current_pick - 1) % N = 0 =>
              \A t \in TeamIds : PlayersOf(t) = current_round - 1

-----------------------------------------------------------------------------
(* C37 *)

\* The player ids of the log entries of team t, in log order.
LoggedFor(t) ==
    LET mine == SelectSeq(all_picks, LAMBDA pick : pick.team_id = t)
    IN  [i \in DOMAIN mine |-> mine[i].player_id]

\* C37: in every state reached by make_pick calls, the picks list of every
\* team is the list of player ids of the team's log entries in log order, and
\* the player of every log entry is in the slot list the entry names, on the
\* team the entry names.
C37_LogMatchesRosters ==
    /\ \A t \in TeamIds : teams[t].picks = LoggedFor(t)
    /\ \A i \in DOMAIN all_picks :
          all_picks[i].player_id
             \in Range(teams[all_picks[i].team_id].roster[all_picks[i].slot])

\* Team 1 has two log entries with another team's entry between them, the
\* later one on its bench or in FLEX.
C37_Witness ==
    /\ Len(all_picks) >= 3
    /\ all_picks[1].team_id = 0
    /\ all_picks[2].team_id = 1
    /\ all_picks[3].team_id = 1
    /\ all_picks[3].slot \in {"FLEX", "BENCH"}
    /\ teams[1].picks = <<all_picks[2].player_id, all_picks[3].player_id>>

-----------------------------------------------------------------------------
(* C38 *)

\* At least one player of each position is still available.
AllPositionsAvailable ==
    \A pos \in Positions :
        \E i \in DOMAIN available_players : PositionOf(available_players[i]) = pos

\* The team on the clock has a pick that validate_pick accepts.
LegalPickExists ==
    \E i \in DOMAIN available_players :
        validate_pick(current_team_id, available_players[i]) = "ok"

\* C38: in simulation mode, if in every non-complete state a player of each
\* of QB, RB, WR, TE, K and DST is still available, then the team on the clock
\* always has a legal pick and, the pick action being weakly fair, the draft
\* eventually is complete with exactly N*R picks logged, and never logs more.
C38_DraftTerminates ==
    [](~is_complete => AllPositionsAvailable) =>
        /\ [](~is_complete => LegalPickExists)
        /\ <>(is_complete /\ Len(all_picks) = N * R)
        /\ [](Len(all_picks) <= N * R)

-----------------------------------------------------------------------------
(* C39 *)

\* No caller is inside make_pick.
Quiescent == \A c \in Callers : calls.th[c].pc \in {"idle", "done"}

\* Caller c is in the except branch of make_pick or has left through it.
TookRollback(c) ==
    \/ calls.th[c].pc \in {"undo_add", "undo_append"}
    \/ calls.th[c].outcome \in {"not_in_pool", "value_error"}

\* The consistency of cursor, log, rosters and pool between make_pick calls.
DraftConsistent ==
    /\ current_pick = Len(all_picks) + 1
    /\ \A i \in DOMAIN all_picks : all_picks[i].pick_number = i
    /\ \A t \in TeamIds : teams[t].picks = LoggedFor(t)
    /\ \A i \in DOMAIN all_picks :
          /\ all_picks[i].player_id
                \in Range(teams[all_picks[i].team_id].roster[all_picks[i].slot])
          /\ all_picks[i].player_id \notin Range(available_players)
    /\ \A t \in TeamIds, s \in SlotNames : Held(t, s) <= Cap(s)

\* Two log entries carry the same pick_number.
DuplicatePickNumber ==
    \E i, j \in DOMAIN all_picks : i # j /\ all_picks[i].pick_number = all_picks[j].pick_number

\* C39: with one writer at a time around make_pick (the mutex taken), no
\* caller ever takes the rollback branch and the draft is consistent whenever
\* no call is in progress; the rollback and the inconsistent states belong to
\* the interleavings without mutual exclusion only.
C39_OneWriterKeepsDraftConsistent ==
    calls.mutex =>
        /\ \A c \in Callers : ~TookRollback(c)
        /\ ~DuplicatePickNumber
        /\ Quiescent => DraftConsistent

\* Without the mutex two calls for the same player on different teams have
\* both passed validation; one took the rollback branch and its pop() removed
\* the other call's Pick, so the log names the team that rolled back while
\* the other team holds the player.
C39_Witness ==
    /\ ~calls.mutex
    /\ Quiescent
    /\ \E c, d \in Callers :
          /\ c # d
          /\ calls.th[c].outcome = "not_in_pool"
          /\ calls.th[d].outcome = "ok"
          /\ calls.th[c].player_id = calls.th[d].player_id
          /\ calls.th[c].team_id # calls.th[d].team_id
          /\ all_picks = <<calls.th[c].pick>>
          /\ teams[calls.th[c].team_id].picks = <<>>
          /\ teams[calls.th[d].team_id].picks = <<calls.th[d].player_id>>
    /\ ~DraftConsistent

====
